---------------------------- MODULE Spec2Model ----------------------------
(***************************************************************************)
(* The Smelter (src-tauri/src/smelter): the SQLite metadata cache          *)
(* (cache.rs) and the file organization engine (organize.rs).              *)
(*                                                                         *)
(* Strings are sequences of one-character strings, so that the string      *)
(* operations of the code (file_stem, extension, format!, trim, split,     *)
(* starts_with) are computed as the code computes them.  A path is a       *)
(* sequence of components, each component a string; Path::join appends a   *)
(* component and Path::file_name is the last one.                          *)
(*                                                                         *)
(* Three specifications share the variables:                               *)
(*   SpecCache      cache_metadata / get_cached_metadata against a         *)
(*                  changing filesystem                                    *)
(*   SpecMigration  init_database called from main and from concurrent     *)
(*                  command handlers, over process restarts                *)
(*   SpecOrganize   one organize_files call, file by file                  *)
(***************************************************************************)
EXTENDS Integers, Sequences, FiniteSets, TLC

VARIABLES
    \* ---- the cache store and the files it describes (cache.rs) ----
    stat,        \* path -> NoFile or [mtime, size]: what std::fs::metadata sees
    tables,      \* the audio_metadata and migrations tables exist
    rows,        \* audio_metadata: file_path -> row (file_path is UNIQUE)
    ledger,      \* migrations: the set of migration names recorded
    dbOpenable,  \* Connection::open(get_db_path()) succeeds
    lastGet,     \* the last get_cached_metadata call: path, stat seen, result
    putLog,      \* path -> the last successful cache_metadata: stat seen, record
                 \* (both of calls made on their own; a handler's are in hlog)
    \* ---- init_database callers (cache.rs, main.rs) ----
    ipc,         \* thread -> position inside init_database
    already_ran, \* thread -> the local of run_cache_clear_migration
    iret,        \* thread -> the last result of init_database
    started,     \* main() has made its init_database call in this process
    lateDelete,  \* a migration DELETE removed rows while the ledger row existed
    \* ---- one organize_files call (organize.rs) ----
    fs,          \* path -> content, for the files that exist
    call,        \* the arguments: files, output_folder, organize_by, operation
    opc,         \* "idle", "loop", "done"
    idx,         \* index of the next file of the loop
    used_names,  \* category -> (original name -> counter)
    success_count,
    error_count,
    errors,      \* the errors vector
    ret,         \* the value returned
    fs0,         \* the filesystem when the call started (history)
    faults,      \* loop iterations in which a filesystem call was made to fail
    trace,       \* per file processed: what the loop body did (history)
    \* ---- the command handlers of main.rs and the read-only functions ----
    fcall,       \* the last call of a function: its arguments and its result
    handler,     \* the scan handler running: its name, paths and position
    hpc,         \* "idle", "init", "clear", "loop", "done"
    results,     \* the results vector of the handler
    hret,        \* the value the handler returned
    hlog,        \* per path processed: what the handler did (history)
    lastClear,   \* the last clear_cache / clear_cache_for_files call (history)
    cleared      \* paths removed by a clear call and not put since (history)

cacheVars == <<stat, tables, rows, ledger, dbOpenable, lastGet, putLog>>
initVars == <<ipc, already_ran, iret, started, lateDelete>>
orgVars == <<fs, call, opc, idx, used_names, success_count, error_count,
               errors, ret, fs0, faults, trace>>
extVars == <<fcall, handler, hpc, results, hret, hlog, lastClear, cleared>>
vars == <<cacheVars, initVars, orgVars, extVars>>

-----------------------------------------------------------------------------
(* Option and Result *)

None == [some |-> FALSE]
Some(x) == [some |-> TRUE, val |-> x]
Ok(x) == [ok |-> TRUE, val |-> x]
Err(kind) == [ok |-> FALSE, err |-> kind]

-----------------------------------------------------------------------------
(* Bounds *)

\* modification times (seconds since the epoch) range over 0..MaxMtime
MaxMtime == 1
\* file sizes (bytes) range over 0..MaxSize
MaxSize == 1
\* organize_files is called with at most MaxFiles files
MaxFiles == 3
\* the environment makes the filesystem calls of at most MaxFaults files of
\* a batch fail (a missing source fails by itself and is not counted)
MaxFaults == 1
\* the longest list of paths handed to a cache or scan operation
MaxPaths == 2

-----------------------------------------------------------------------------
(* Strings and paths *)

file_name(path) == path[Len(path)]

\* the two files the cache is exercised on: "s/a.mp3" and "s/b.WAV"
PathA == << <<"s">>, <<"a", ".", "m", "p", "3">> >>
PathB == << <<"s">>, <<"b", ".", "W", "A", "V">> >>
CachePaths == {PathA, PathB}


-----------------------------------------------------------------------------
(* AudioMetadata (smelter/mod.rs) *)

AudioMetadata(path, title, artist, genre, mood, energy, bpm, duration_secs, category_override) ==
    [path |-> path, filename |-> file_name(path), title |-> title,
     artist |-> artist, genre |-> genre, mood |-> mood, energy |-> energy,
     bpm |-> bpm, duration_secs |-> duration_secs,
     category_override |-> category_override]

\* bpm is a u32 stored through `as i32` and read back through `as u32`.
\* The width is scaled from 32 to 4 bits: TLC's integers are 32 bits wide.
U32Bits == 4
U32Max == 2^U32Bits - 1
as_i32(v) == IF v >= 2^(U32Bits - 1) THEN v - 2^U32Bits ELSE v
as_u32(i) == i % 2^U32Bits
\* metadata.bpm.map(|b| b as i32), the column written
bpm_as_i32(bpm) == IF bpm.some THEN Some(as_i32(bpm.val)) ELSE None
\* bpm.map(|b| b as u32), the field read back
bpm_as_u32(bpm) == IF bpm.some THEN Some(as_u32(bpm.val)) ELSE None

\* The records handed to cache_metadata: per path, one as the reader builds
\* it (no category_override) with the largest bpm, and one carrying a
\* category_override as the frontend sets it.
CacheRecords ==
    { AudioMetadata(p, Some(<<"T">>), None, Some(<<"R">>), None, None,
                    Some(U32Max), Some(1), None) : p \in CachePaths }
    \cup
    { AudioMetadata(p, None, Some(<<"A">>), None, Some(<<"M">>), Some(<<"E">>),
                    None, None, Some(<<"O">>)) : p \in {PathA} }

-----------------------------------------------------------------------------
(* The cache store (smelter/cache.rs) *)

\* std::fs::metadata(path).ok()
fs_metadata(path) == stat[path]

\* .and_then(|m| m.modified().ok()) ... .map(|d| d.as_secs() as i64).unwrap_or(0)
file_modified_of(file_meta) == IF file_meta.some THEN file_meta.val.mtime ELSE 0

\* file_meta.map(|m| m.len() as i64).unwrap_or(0)
file_size_of(file_meta) == IF file_meta.some THEN file_meta.val.size ELSE 0

\* get_connection: a fresh connection per call
get_connection == IF dbOpenable THEN Ok("conn") ELSE Err("Failed to open database")

\* cache.rs:148: both mtime and size must match
RowValid(row, file_modified, file_size) ==
    ~(row.file_modified # file_modified \/ row.file_size # file_size)

\* cache.rs:152-170: the AudioMetadata rebuilt from a row
RowToMetadata(row) ==
    [path |-> row.file_path, filename |-> file_name(row.file_path),
     title |-> row.title, artist |-> row.artist, genre |-> row.genre,
     mood |-> row.mood, energy |-> row.energy,
     bpm |-> bpm_as_u32(row.bpm), duration_secs |-> row.duration_secs,
     category_override |-> None]

get_cached_metadata(file_path) ==
    IF ~get_connection.ok THEN Err("Failed to open database")
    ELSE LET file_meta == fs_metadata(file_path)
             file_modified == file_modified_of(file_meta)
             file_size == file_size_of(file_meta)
         IN  IF ~tables THEN Err("Database error")
             ELSE IF file_path \notin DOMAIN rows THEN Ok(None)
             ELSE IF ~RowValid(rows[file_path], file_modified, file_size)
                  THEN Ok(None)
             ELSE Ok(Some(RowToMetadata(rows[file_path])))

\* cache.rs:199-216: the row written by INSERT OR REPLACE (created_at and
\* updated_at are written and never read)
NewRow(metadata, file_modified, file_size) ==
    [file_path |-> metadata.path, file_modified |-> file_modified,
     file_size |-> file_size, title |-> metadata.title,
     artist |-> metadata.artist, genre |-> metadata.genre,
     mood |-> metadata.mood, energy |-> metadata.energy,
     bpm |-> bpm_as_i32(metadata.bpm),
     duration_secs |-> metadata.duration_secs]

\* mutant: INSERT OR IGNORE, an existing row stays
InsertOrIgnore(table, key, row) ==
    [k \in DOMAIN table \cup {key} |-> IF k \in DOMAIN table THEN table[k] ELSE row]

\* INSERT OR REPLACE on the UNIQUE file_path
Upsert(table, key, row) ==
    [k \in DOMAIN table \cup {key} |-> IF k = key THEN row ELSE table[k]]

cache_metadata_result == 
    IF ~get_connection.ok THEN Err("Failed to open database")
    ELSE IF ~tables THEN Err("Failed to cache metadata")
    ELSE Ok("unit")

GetCachedMetadata(file_path) ==
    /\ lastGet' = Some([path |-> file_path,
                        opened |-> get_connection.ok,
                        meta |-> fs_metadata(file_path),
                        result |-> get_cached_metadata(file_path)])
    /\ UNCHANGED <<stat, tables, rows, ledger, dbOpenable, putLog>>
    /\ UNCHANGED <<initVars, orgVars, extVars>>

CacheMetadata(metadata) ==
    /\ IF cache_metadata_result.ok
       THEN LET file_meta == fs_metadata(metadata.path)
            IN  /\ rows' = Upsert(rows, metadata.path,
                                  NewRow(metadata, file_modified_of(file_meta),
                                         file_size_of(file_meta)))
                /\ putLog' = [putLog EXCEPT ![metadata.path] =
                                 Some([meta |-> file_meta, rec |-> metadata])]
       ELSE UNCHANGED <<rows, putLog>>
    /\ lastGet' = None
    /\ cleared' = IF cache_metadata_result.ok
                  THEN cleared \ {metadata.path} ELSE cleared
    /\ UNCHANGED <<stat, tables, ledger, dbOpenable>>
    /\ UNCHANGED <<initVars, orgVars>>
    /\ UNCHANGED <<fcall, handler, hpc, results, hret, hlog, lastClear>>

\* a table without rows
EmptyTable == [k \in {} |-> None]

\* the paths put and not removed by a clear call since (from the history)
Held == {p \in CachePaths : putLog[p].some /\ p \notin cleared}

\* mutant: the rows are counted after the DELETE
select_count_late(table) == 0

\* SELECT COUNT(*) FROM audio_metadata
select_count(table) == Cardinality(DOMAIN table)

\* mutant: the DELETE matches no row
delete_where_nothing(table, file_path) == table

\* mutant: the DELETE has no WHERE clause
delete_everything(table, file_path) == [k \in {} |-> << >>]

\* DELETE FROM audio_metadata WHERE file_path = ?1
delete_where(table, file_path) ==
    [k \in DOMAIN table \ {file_path} |-> table[k]]

\* cache.rs:223-234: the result of clear_cache.  A failed COUNT is read as 0.
clear_cache_result ==
    IF ~get_connection.ok THEN Err("Failed to open database")
    ELSE IF ~tables THEN Err("Failed to clear cache")
    ELSE Ok(select_count(rows))

ClearCache ==
    /\ rows' = IF clear_cache_result.ok THEN EmptyTable ELSE rows
    /\ lastClear' = Some([op |-> "clear_cache", paths |-> <<>>,
                          opened |-> get_connection.ok, held |-> Held,
                          before |-> rows,
                          after |-> IF clear_cache_result.ok
                                    THEN EmptyTable ELSE rows,
                          result |-> clear_cache_result])
    /\ cleared' = IF clear_cache_result.ok
                  THEN cleared \cup DOMAIN rows ELSE cleared
    /\ lastGet' = None
    /\ UNCHANGED <<stat, tables, ledger, dbOpenable, putLog>>
    /\ UNCHANGED <<fcall, handler, hpc, results, hret, hlog>>
    /\ UNCHANGED <<initVars, orgVars>>

\* cache.rs:245-250: the DELETEs of the first k paths, on an open connection;
\* a DELETE that fails (no table) removes nothing and adds nothing to count
RECURSIVE delete_each(_, _, _)
delete_each(table, file_paths, k) ==
    IF k = 0 THEN [table |-> table, count |-> 0]
    ELSE LET d == delete_each(table, file_paths, k - 1)
             n == IF tables /\ file_paths[k] \in DOMAIN d.table THEN 1 ELSE 0
         IN  [table |-> IF tables THEN delete_where(d.table, file_paths[k])
                        ELSE d.table,
              count |-> d.count + n]

\* cache.rs:237-253
clear_cache_for_files(file_paths) ==
    IF file_paths = <<>> THEN [table |-> rows, result |-> Ok(0)]
    ELSE IF ~get_connection.ok
         THEN [table |-> rows, result |-> Err("Failed to open database")]
    ELSE LET d == delete_each(rows, file_paths, Len(file_paths))
         IN  [table |-> d.table, result |-> Ok(d.count)]

ClearCacheForFiles(file_paths) ==
    /\ rows' = clear_cache_for_files(file_paths).table
    /\ lastClear' = Some([op |-> "clear_cache_for_files", paths |-> file_paths,
                          opened |-> get_connection.ok, held |-> Held,
                          before |-> rows,
                          after |-> clear_cache_for_files(file_paths).table,
                          result |-> clear_cache_for_files(file_paths).result])
    /\ cleared' = IF clear_cache_for_files(file_paths).result.ok
                  THEN cleared \cup {file_paths[i] : i \in DOMAIN file_paths}
                  ELSE cleared
    /\ lastGet' = None
    /\ UNCHANGED <<stat, tables, ledger, dbOpenable, putLog>>
    /\ UNCHANGED <<fcall, handler, hpc, results, hret, hlog>>
    /\ UNCHANGED <<initVars, orgVars>>

(* The environment: files are written, touched and removed, and the store's
   location comes and goes. *)
FileWritten(path, mtime, size) ==
    /\ stat[path] # Some([mtime |-> mtime, size |-> size])
    /\ stat' = [stat EXCEPT ![path] = Some([mtime |-> mtime, size |-> size])]
    /\ UNCHANGED <<tables, rows, ledger, dbOpenable, lastGet, putLog>>
    /\ UNCHANGED <<initVars, orgVars, extVars>>

FileRemoved(path) ==
    /\ stat[path].some
    /\ stat' = [stat EXCEPT ![path] = None]
    /\ UNCHANGED <<tables, rows, ledger, dbOpenable, lastGet, putLog>>
    /\ UNCHANGED <<initVars, orgVars, extVars>>

StoreAvailability ==
    /\ dbOpenable' = ~dbOpenable
    /\ UNCHANGED <<stat, tables, rows, ledger, lastGet, putLog>>
    /\ UNCHANGED <<initVars, orgVars, extVars>>


-----------------------------------------------------------------------------
(* init_database and its one-time migration (smelter/cache.rs, main.rs) *)

\* cache.rs:11
migration_name == "clear_stale_cache_v2"

\* main() calls init_database once, alone, before the command handlers run;
\* scan_audio_files and scan_directory call it from concurrent handlers.
Handlers == {"scan_audio_files", "scan_directory"}
Threads == {"main"} \cup Handlers

\* A caller may enter init_database: main at process start, a handler once
\* main's call is over.
MayCall(t) ==
    /\ ipc[t] = "idle"
    /\ IF t = "main" THEN ~started ELSE started

\* cache.rs:64-100: open the store, CREATE TABLE IF NOT EXISTS (twice)
InitOpen(t) ==
    /\ MayCall(t)
    /\ IF get_connection.ok
       THEN /\ tables' = TRUE
            /\ ipc' = [ipc EXCEPT ![t] = "check"]
            /\ UNCHANGED <<iret, started>>
       ELSE /\ iret' = [iret EXCEPT ![t] = Some(Err("Failed to open database"))]
            /\ started' = (started \/ t = "main")
            /\ UNCHANGED <<tables, ipc>>
    /\ UNCHANGED <<stat, rows, ledger, dbOpenable, lastGet, putLog,
                   already_ran, lateDelete, orgVars, extVars>>

\* cache.rs:14-24: SELECT COUNT(*) > 0 FROM migrations WHERE name = ?1
MigrationCheck(t) ==
    /\ ipc[t] = "check"
    /\ already_ran' = [already_ran EXCEPT ![t] = (migration_name \in ledger)]
    /\ ipc' = [ipc EXCEPT ![t] =
                  IF migration_name \in ledger THEN "index" ELSE "delete"]
    /\ UNCHANGED <<cacheVars, iret, started, lateDelete, orgVars, extVars>>

\* cache.rs:27-28: DELETE FROM audio_metadata
MigrationDelete(t) ==
    /\ ipc[t] = "delete"
    /\ rows' = EmptyTable
    /\ lateDelete' = (lateDelete \/
                        (migration_name \in ledger /\ DOMAIN rows # {}))
    /\ ipc' = [ipc EXCEPT ![t] = "insert"]
    /\ UNCHANGED <<stat, tables, ledger, dbOpenable, lastGet, putLog,
                   already_ran, iret, started, orgVars, extVars>>

\* cache.rs:36-40: INSERT INTO migrations; name is UNIQUE
MigrationInsert(t) ==
    /\ ipc[t] = "insert"
    /\ IF migration_name \in ledger
       THEN /\ iret' = [iret EXCEPT ![t] = Some(Err("Failed to record migration"))]
            /\ ipc' = [ipc EXCEPT ![t] = "idle"]
            /\ started' = (started \/ t = "main")
            /\ UNCHANGED ledger
       ELSE /\ ledger' = ledger \cup {migration_name}
            /\ ipc' = [ipc EXCEPT ![t] = "index"]
            /\ UNCHANGED <<iret, started>>
    /\ UNCHANGED <<stat, tables, rows, dbOpenable, lastGet, putLog,
                   already_ran, lateDelete, orgVars, extVars>>

\* cache.rs:105-115: CREATE INDEX IF NOT EXISTS, keep the connection, Ok(())
InitFinish(t) ==
    /\ ipc[t] = "index"
    /\ iret' = [iret EXCEPT ![t] = Some(Ok("unit"))]
    /\ ipc' = [ipc EXCEPT ![t] = "idle"]
    /\ started' = (started \/ t = "main")
    /\ UNCHANGED <<cacheVars, already_ran, lateDelete, orgVars, extVars>>

\* The process ends (at any point) and the application is started again:
\* the store persists, the callers start over.
ProcessRestart ==
    /\ started \/ \E t \in Threads : ipc[t] # "idle"
    /\ ipc' = [t \in Threads |-> "idle"]
    /\ already_ran' = [t \in Threads |-> FALSE]
    /\ iret' = [t \in Threads |-> None]
    /\ started' = FALSE
    /\ UNCHANGED <<cacheVars, lateDelete, orgVars, extVars>>


-----------------------------------------------------------------------------
(* String operations used by organize.rs *)

RECURSIVE trim_start(_)
trim_start(s) ==
    IF s # <<>> /\ Head(s) = " " THEN trim_start(Tail(s)) ELSE s

RECURSIVE trim_end(_)
trim_end(s) ==
    IF s # <<>> /\ s[Len(s)] = " " THEN trim_end(SubSeq(s, 1, Len(s) - 1)) ELSE s

\* mutant: nothing is trimmed
no_trim(s) == s

\* str::trim
trim(s) == trim_end(trim_start(s))

\* str::starts_with
starts_with(s, prefix) ==
    Len(s) >= Len(prefix) /\ SubSeq(s, 1, Len(prefix)) = prefix

\* s.split(sep).next(): the text before the first separator, all of s when
\* there is none; never absent
split_first(s, sep) ==
    LET hits == {i \in 1..Len(s) : s[i] = sep}
    IN  IF hits = {} THEN s
        ELSE SubSeq(s, 1, (CHOOSE i \in hits : \A j \in hits : i <= j) - 1)

\* position of the last '.', 0 when there is none
LastDot(name) ==
    LET dots == {i \in 1..Len(name) : name[i] = "."}
    IN  IF dots = {} THEN 0 ELSE CHOOSE i \in dots : \A j \in dots : j <= i

\* Path::file_stem: the whole name when it has no '.' or only a leading one
file_stem(name) ==
    IF LastDot(name) <= 1 THEN name ELSE SubSeq(name, 1, LastDot(name) - 1)

\* Path::extension(...).unwrap_or("")
extension(name) ==
    IF LastDot(name) <= 1 THEN <<>>
    ELSE SubSeq(name, LastDot(name) + 1, Len(name))

Digit == <<"0", "1", "2", "3", "4", "5", "6", "7", "8", "9">>

\* the decimal text of a u32, as format!("{}") writes it
RECURSIVE to_string(_)
to_string(n) ==
    IF n < 10 THEN <<Digit[n + 1]>>
    ELSE to_string(n \div 10) \o <<Digit[(n % 10) + 1]>>

\* Path::join
join(folder, name) == Append(folder, name)

Str_ES == <<"E", "S", "_">>
Str_SFX == <<"S", "F", "X">>
Str_Unknown == <<"U", "n", "k", "n", "o", "w", "n">>

-----------------------------------------------------------------------------
(* Categorizer (organize.rs:111-154) *)

\* mutant: the prefix is matched in either case
is_sfx_file_any_case(filename) ==
    ~(starts_with(filename, Str_ES) \/ starts_with(filename, <<"e", "s", "_">>))

is_sfx_file(filename) == ~starts_with(filename, Str_ES)

get_file_category(file, organize_by) ==
    IF is_sfx_file(file.filename) THEN Str_SFX
    ELSE LET category ==
                 IF file.category_override.some THEN file.category_override
                 ELSE IF organize_by = "genre" THEN file.genre
                 ELSE IF organize_by = "mood"
                      THEN IF file.mood.some
                           THEN Some(trim(split_first(file.mood.val, ",")))
                           ELSE None
                 ELSE None
         IN  IF category.some THEN category.val ELSE Str_Unknown

ReservedChars == {"/", "\\", ":", "*", "?", "\"", "<", ">", "|"}

sanitize_folder_name(name) ==
    trim([i \in 1..Len(name) |->
             IF name[i] \in ReservedChars THEN "_" ELSE name[i]])

-----------------------------------------------------------------------------
(* NameResolver (organize.rs:156-208) *)

\* Path::exists on the modelled disk
exists(disk, path) == path \in DOMAIN disk

\* format!("{}_{}", stem, n) or format!("{}_{}.{}", stem, n, ext)
numbered_name(original_name, n) ==
    LET stem == file_stem(original_name)
        ext == extension(original_name)
    IN  IF ext = <<>> THEN stem \o <<"_">> \o to_string(n)
        ELSE stem \o <<"_">> \o to_string(n) \o <<".">> \o ext

\* mutant: the counter is used without probing the disk
first_number(disk, folder, original_name, counter) == counter

\* organize.rs:189-202: the first counter from `counter` on whose name is
\* not on disk
RECURSIVE find_free_number(_, _, _, _)
find_free_number(disk, folder, original_name, counter) ==
    IF ~exists(disk, join(folder, numbered_name(original_name, counter)))
    THEN counter
    ELSE find_free_number(disk, folder, original_name, counter + 1)

\* the name returned and the used_names map left behind
generate_unique_filename(disk, folder, original_name, used, category) ==
    LET category_names ==
            IF category \in DOMAIN used THEN used[category] ELSE EmptyTable
        record(count) ==
            Upsert(used, category, Upsert(category_names, original_name, count))
    IN  IF original_name \in DOMAIN category_names
        THEN LET count == category_names[original_name]
             IN  [name |-> numbered_name(original_name, count + 1),
                  used_names |-> record(count + 1)]
        ELSE IF exists(disk, join(folder, original_name))
        THEN LET counter == find_free_number(disk, folder, original_name, 1)
             IN  [name |-> numbered_name(original_name, counter),
                  used_names |-> record(counter)]
        ELSE [name |-> original_name, used_names |-> record(0)]

-----------------------------------------------------------------------------
(* The filesystem calls of organize_files.  A disk maps the paths of the
   files that exist to their content; a file's content is named by the path
   it had when the call started, <<>> for a truncated or partial file.  Each
   call fails when its source is missing and may fail for a reason of the
   environment (permissions, another device, a full disk). *)

Partial == <<>>

Remove(disk, path) == [q \in DOMAIN disk \ {path} |-> disk[q]]

\* std::fs::rename: replaces an existing destination
fs_rename(disk, from, to, env_ok) ==
    IF ~exists(disk, from) \/ ~env_ok THEN [ok |-> FALSE, disk |-> disk]
    ELSE IF from = to THEN [ok |-> TRUE, disk |-> disk]
    ELSE [ok |-> TRUE, disk |-> Upsert(Remove(disk, from), to, disk[from])]

\* mutant: the copy refuses to write over an existing destination
fs_copy_create_new(disk, from, to, env) ==
    IF ~exists(disk, from) \/ env = "fail" \/ exists(disk, to)
    THEN [ok |-> FALSE, disk |-> disk]
    ELSE [ok |-> TRUE, disk |-> Upsert(disk, to, disk[from])]

\* std::fs::copy: overwrites the destination; an interrupted copy leaves a
\* partial destination; copying a file onto itself truncates it
fs_copy(disk, from, to, env) ==
    IF ~exists(disk, from) \/ env = "fail" THEN [ok |-> FALSE, disk |-> disk]
    ELSE IF env = "partial" THEN [ok |-> FALSE, disk |-> Upsert(disk, to, Partial)]
    ELSE IF from = to THEN [ok |-> TRUE, disk |-> Upsert(disk, to, Partial)]
    ELSE [ok |-> TRUE, disk |-> Upsert(disk, to, disk[from])]

\* std::fs::remove_file
fs_remove_file(disk, path, env_ok) ==
    IF ~exists(disk, path) \/ ~env_ok THEN [ok |-> FALSE, disk |-> disk]
    ELSE [ok |-> TRUE, disk |-> Remove(disk, path)]

CopyOutcomes == {"ok", "fail", "partial"}

\* mutant: the result of removing the source is ignored
move_file_unchecked(disk, from, to, rename_ok, copy_env, remove_ok) ==
    LET r == fs_rename(disk, from, to, rename_ok)
        c == fs_copy(r.disk, from, to, copy_env)
        d == fs_remove_file(c.disk, from, remove_ok)
    IN  IF r.ok THEN [ok |-> TRUE, disk |-> r.disk,
                      did |-> << <<"rename", TRUE>> >>]
        ELSE IF ~c.ok THEN [ok |-> FALSE, disk |-> c.disk,
                            did |-> << <<"rename", FALSE>>, <<"copy", FALSE>> >>]
        ELSE [ok |-> TRUE, disk |-> d.disk,
              did |-> << <<"rename", FALSE>>, <<"copy", TRUE>>,
                         <<"remove_file", d.ok>> >>]

\* organize.rs:80-85: rename, or else copy and then remove the source.
\* `did` records the calls made, in order, with their results.
move_file(disk, from, to, rename_ok, copy_env, remove_ok) ==
    LET r == fs_rename(disk, from, to, rename_ok)
        c == fs_copy(r.disk, from, to, copy_env)
        d == fs_remove_file(c.disk, from, remove_ok)
    IN  IF r.ok THEN [ok |-> TRUE, disk |-> r.disk,
                      did |-> << <<"rename", TRUE>> >>]
        ELSE IF ~c.ok THEN [ok |-> FALSE, disk |-> c.disk,
                            did |-> << <<"rename", FALSE>>, <<"copy", FALSE>> >>]
        ELSE [ok |-> d.ok, disk |-> d.disk,
              did |-> << <<"rename", FALSE>>, <<"copy", TRUE>>,
                         <<"remove_file", d.ok>> >>]

\* organize.rs:86
copy_file(disk, from, to, copy_env) ==
    LET c == fs_copy(disk, from, to, copy_env)
    IN  [ok |-> c.ok, disk |-> c.disk, did |-> << <<"copy", c.ok>> >>]

-----------------------------------------------------------------------------
(* organize_files (organize.rs:31-109), one loop iteration per step *)

\* format_fs_error(e, path, operation) and format!("Unknown operation: {}")
fs_error(path, operation) ==
    [kind |-> "fs", path |-> path, operation |-> operation]
unknown_operation(operation) ==
    [kind |-> "Unknown operation", path |-> <<>>, operation |-> operation]

OrganizeResult(s, e, k, errs) ==
    [success_count |-> s, error_count |-> e, skipped_count |-> k, errors |-> errs]

\* organize.rs:47
skipped_count == 0

\* mutant: the loop stops at the first such failure
Break(i, n) == n + 1

\* `continue` (organize.rs:65, organize.rs:90): on to files[i + 1] of n
Continue(i, n) == i + 1

\* mutant: the message is put in front of the list
push_front(vec, value) == <<value>> \o vec

\* Vec::push
push(vec, value) == Append(vec, value)

\* organize.rs:38-51: create the output folder, or fail the call
OrganizeStart(files, output_folder, organize_by, operation, root_ok) ==
    /\ opc = "idle"
    /\ call' = Some([files |-> files, output_folder |-> output_folder,
                     organize_by |-> organize_by, operation |-> operation,
                     root_created |-> root_ok])
    /\ fs0' = fs
    /\ IF root_ok
       THEN /\ opc' = "loop"
            /\ UNCHANGED ret
       ELSE /\ opc' = "done"
            /\ ret' = Some(Err(fs_error(output_folder, "create output folder")))
    /\ idx' = 1
    /\ success_count' = 0
    /\ error_count' = 0
    /\ errors' = <<>>
    /\ used_names' = EmptyTable
    /\ trace' = <<>>
    /\ faults' = 0
    /\ UNCHANGED <<fs, cacheVars, initVars, extVars>>

\* organize.rs:53-101: the loop body for files[idx]
OrganizeFile(mkdir_ok, rename_ok, copy_env, remove_ok) ==
    /\ opc = "loop"
    /\ idx <= Len(call.val.files)
    /\ IF mkdir_ok /\ rename_ok /\ copy_env = "ok" /\ remove_ok
       THEN UNCHANGED faults
       ELSE faults < MaxFaults /\ faults' = faults + 1
    /\ LET file == call.val.files[idx]
           operation == call.val.operation
           category == get_file_category(file, call.val.organize_by)
           safe_category == sanitize_folder_name(category)
           category_path == join(call.val.output_folder, safe_category)
           gen == generate_unique_filename(fs, category_path, file.filename,
                                           used_names, safe_category)
           filename == gen.name
           dest_path == join(category_path, filename)
           result == IF operation = "move"
                     THEN move_file(fs, file.path, dest_path,
                                    rename_ok, copy_env, remove_ok)
                     ELSE copy_file(fs, file.path, dest_path, copy_env)
           entry == [file |-> idx, category |-> safe_category,
                     name |-> None, dest |-> None, dest_existed |-> FALSE,
                     did |-> <<>>, outcome |-> "ok",
                     src_after |-> exists(fs, file.path), dst_after |-> FALSE]
       IN  IF ~mkdir_ok
           THEN \* create_dir_all(category_path) failed
                /\ errors' = push(errors, fs_error(safe_category, "create folder"))
                /\ error_count' = error_count + 1
                /\ idx' = Continue(idx, Len(call.val.files))
                /\ trace' = Append(trace, [entry EXCEPT !.outcome = "create folder"])
                /\ UNCHANGED <<fs, used_names, success_count>>
           ELSE IF operation \notin {"move", "copy"}
           THEN /\ errors' = push(errors, unknown_operation(operation))
                /\ error_count' = error_count + 1
                /\ idx' = Continue(idx, Len(call.val.files))
                /\ used_names' = gen.used_names
                /\ trace' = Append(trace,
                       [entry EXCEPT !.outcome = "unknown operation",
                                     !.name = Some(filename),
                                     !.dest = Some(dest_path),
                                     !.dest_existed = exists(fs, dest_path),
                                     !.dst_after = exists(fs, dest_path)])
                /\ UNCHANGED <<fs, success_count>>
           ELSE /\ fs' = result.disk
                /\ used_names' = gen.used_names
                /\ IF result.ok
                   THEN /\ success_count' = success_count + 1
                        /\ UNCHANGED <<error_count, errors>>
                   ELSE /\ errors' = push(errors,
                                          fs_error(file.filename, operation))
                        /\ error_count' = error_count + 1
                        /\ UNCHANGED success_count
                /\ idx' = idx + 1
                /\ trace' = Append(trace,
                       [entry EXCEPT !.outcome = IF result.ok THEN "ok" ELSE "failed",
                                     !.name = Some(filename),
                                     !.dest = Some(dest_path),
                                     !.dest_existed = exists(fs, dest_path),
                                     !.did = result.did,
                                     !.src_after = exists(result.disk, file.path),
                                     !.dst_after = exists(result.disk, dest_path)])
    /\ UNCHANGED <<call, opc, ret, fs0, cacheVars, initVars, extVars>>

\* organize.rs:103-108
OrganizeReturn ==
    /\ opc = "loop"
    /\ idx > Len(call.val.files)
    /\ ret' = Some(Ok(OrganizeResult(success_count, error_count,
                                     skipped_count, errors)))
    /\ opc' = "done"
    /\ UNCHANGED <<fs, call, idx, used_names, success_count, error_count,
                   errors, fs0, faults, trace, cacheVars, initVars, extVars>>

-----------------------------------------------------------------------------
(* Specifications *)

\* no init_database call in progress, main's call made
InitIdle ==
    /\ ipc = [t \in Threads |-> "idle"]
    /\ already_ran = [t \in Threads |-> FALSE]
    /\ iret = [t \in Threads |-> None]
    /\ lateDelete = FALSE

\* no organize_files call
OrgIdle ==
    /\ fs = EmptyTable
    /\ call = None
    /\ opc = "idle"
    /\ idx = 0
    /\ used_names = EmptyTable
    /\ success_count = 0
    /\ error_count = 0
    /\ errors = <<>>
    /\ ret = None
    /\ fs0 = EmptyTable
    /\ faults = 0
    /\ trace = <<>>

\* no handler running, no function called
ExtIdle ==
    /\ fcall = None
    /\ handler = None
    /\ hpc = "idle"
    /\ results = <<>>
    /\ hret = None
    /\ hlog = <<>>
    /\ lastClear = None
    /\ cleared = {}

Mtimes == 0..MaxMtime
Sizes == 0..MaxSize

\* The cache after a successful init_database: the tables exist, the
\* migration is recorded, no row is stored; the files exist.
CacheReady ==
    /\ stat = [p \in CachePaths |-> Some([mtime |-> MaxMtime, size |-> MaxSize])]
    /\ tables = TRUE
    /\ rows = EmptyTable
    /\ ledger = {migration_name}
    /\ dbOpenable = TRUE
    /\ lastGet = None
    /\ putLog = [p \in CachePaths |-> None]
    /\ started = TRUE
    /\ InitIdle

CacheInit == CacheReady /\ OrgIdle /\ ExtIdle

CacheNext ==
    \/ \E metadata \in CacheRecords : CacheMetadata(metadata)
    \/ \E file_path \in CachePaths : GetCachedMetadata(file_path)
    \/ \E path \in CachePaths, mtime \in Mtimes, size \in Sizes :
           FileWritten(path, mtime, size)
    \/ \E path \in CachePaths : FileRemoved(path)

SpecCache == CacheInit /\ [][CacheNext]_vars

\* The cache with its two clear operations; the store's location comes and
\* goes.
PathLists ==
    UNION {[1..n -> CachePaths] : n \in 0..MaxPaths}

ClearNext ==
    \/ \E metadata \in CacheRecords : CacheMetadata(metadata)
    \/ \E file_path \in CachePaths : GetCachedMetadata(file_path)
    \/ \E path \in CachePaths : FileRemoved(path)
    \/ ClearCache
    \/ \E file_paths \in PathLists : ClearCacheForFiles(file_paths)
    \/ StoreAvailability

SpecClear == CacheInit /\ [][ClearNext]_vars

\* A fresh store (no table, no row, no ledger entry) at the first start of
\* the application.
MigrationInit ==
    /\ stat = [p \in CachePaths |-> Some([mtime |-> MaxMtime, size |-> MaxSize])]
    /\ tables = FALSE
    /\ rows = EmptyTable
    /\ ledger = {}
    /\ dbOpenable \in BOOLEAN
    /\ lastGet = None
    /\ putLog = [p \in CachePaths |-> None]
    /\ started = FALSE
    /\ InitIdle
    /\ OrgIdle
    /\ ExtIdle

\* a handler caches a record it has read (main.rs:31, main.rs:130)
HandlerCaches(metadata) == started /\ CacheMetadata(metadata)

MigrationNext ==
    \/ \E t \in Threads : InitOpen(t)
    \/ \E t \in Threads : MigrationCheck(t)
    \/ \E t \in Threads : MigrationDelete(t)
    \/ \E t \in Threads : MigrationInsert(t)
    \/ \E t \in Threads : InitFinish(t)
    \/ ProcessRestart
    \/ \E metadata \in CacheRecords : HandlerCaches(metadata)
    \/ StoreAvailability

SpecMigration == MigrationInit /\ [][MigrationNext]_vars


-----------------------------------------------------------------------------
(* Claims about the cache store *)

\* the identity fields cache.rs derives from a stat: (0, 0) when it fails
Identity(file_meta) == <<file_modified_of(file_meta), file_size_of(file_meta)>>

\* the lookup named by lastGet follows a successful put of the same path
LookupAfterPut ==
    /\ lastGet.some
    /\ lastGet.val.result.ok
    /\ putLog[lastGet.val.path].some

C2_StatFailureIsAMiss ==
    (lastGet.some /\ lastGet.val.opened /\ ~lastGet.val.meta.some)
        => lastGet.val.result = Ok(None)

-----------------------------------------------------------------------------
(* Claims about init_database *)

\* C3: once the ledger row of clear_stale_cache_v2 exists no
\* init_database call deletes a cache entry, and every init_database call on
\* an openable store returns Ok.
C3_MigrationRunsOnce ==
    /\ ~lateDelete
    /\ \A t \in Threads :
          iret[t].some =>
              \/ iret[t].val.ok
              \/ iret[t].val.err = "Failed to open database"


(* One organize_files call into the output folder o.  The sources
   s/ES_a.m, t/ES_a.m and s/ES_a_1.m exist.  o/R/ES_a.m and o/R/ES_a_1.m,
   files in the category folder R, may exist before the call, and
   o/R/ES_a_1.m may itself be a source of the batch. *)
OutputFolder == << <<"o">> >>
Name_a == <<"E", "S", "_", "a", ".", "m">>
Name_a_1 == <<"E", "S", "_", "a", "_", "1", ".", "m">>
Str_R == <<"R">>

Src_s_a == << <<"s">>, Name_a >>
Src_t_a == << <<"t">>, Name_a >>
Src_s_a_1 == << <<"s">>, Name_a_1 >>
Dst_R_a == << <<"o">>, Str_R, Name_a >>
Dst_R_a_1 == << <<"o">>, Str_R, Name_a_1 >>

\* genre R for all; by mood s/ES_a.m and the two ES_a_1.m go to M, and
\* t/ES_a.m carries the category_override R
Tagged(path, mood, category_override) ==
    AudioMetadata(path, None, None, Some(Str_R), mood, None, None, None,
                  category_override)

OrgFiles ==
    { Tagged(Src_s_a, Some(<<"M", ",", " ", "W">>), None),
      Tagged(Src_t_a, None, Some(Str_R)),
      Tagged(Src_s_a_1, Some(<<"M">>), None),
      Tagged(Dst_R_a_1, Some(<<" ", "M">>), None) }

FileLists == UNION {[1..n -> OrgFiles] : n \in 0..MaxFiles}

Operations == {"move", "copy", "link"}
OrganizeBy == {"genre", "mood"}

\* a file's content is named by the path it starts at
DiskOf(paths) == [p \in paths |-> p]

OrganizeInit ==
    /\ CacheReady
    /\ ExtIdle
    /\ \E present \in SUBSET {Dst_R_a, Dst_R_a_1} :
          fs = DiskOf({Src_s_a, Src_t_a, Src_s_a_1} \cup present)
    /\ call = None
    /\ opc = "idle"
    /\ idx = 0
    /\ used_names = EmptyTable
    /\ success_count = 0
    /\ error_count = 0
    /\ errors = <<>>
    /\ ret = None
    /\ fs0 = EmptyTable
    /\ faults = 0
    /\ trace = <<>>

OrganizeNext ==
    \/ \E files \in FileLists, organize_by \in OrganizeBy,
          operation \in Operations, root_ok \in BOOLEAN :
           OrganizeStart(files, OutputFolder, organize_by, operation, root_ok)
    \/ \E mkdir_ok \in BOOLEAN, rename_ok \in BOOLEAN,
          copy_env \in CopyOutcomes, remove_ok \in BOOLEAN :
           OrganizeFile(mkdir_ok, rename_ok, copy_env, remove_ok)
    \/ OrganizeReturn

SpecOrganize == OrganizeInit /\ [][OrganizeNext]_vars

-----------------------------------------------------------------------------
(* Claims about organize_files.  trace holds one entry per file the loop
   has processed: the name generate_unique_filename returned, the
   destination, whether the destination existed when the name was returned,
   the filesystem calls made and what exists right after them. *)

Named == {i \in DOMAIN trace : trace[i].name.some}

\* C4: within one organize_files batch, generate_unique_filename never
\* returns the same (sanitized category, final filename) pair twice.
C4_NoPairReturnedTwice ==
    \A i, j \in Named :
        (i < j /\ trace[i].category = trace[j].category)
            => trace[i].name # trace[j].name

\* C5: every name returned by generate_unique_filename, joined with the
\* category folder, names a path that does not exist on disk at the time of
\* the call, for first and for subsequent requests of the pair.
C5_ReturnedNameIsFree ==
    \A i \in Named : ~trace[i].dest_existed

\* the source paths of the batch
Sources == {call.val.files[i].path : i \in DOMAIN call.val.files}

\* C6: organize_files with operation copy leaves every source file of the
\* batch present with unchanged content after the call.
C6_CopyLeavesSources ==
    (opc = "done" /\ call.val.operation = "copy")
        => \A p \in Sources :
               exists(fs0, p) => (exists(fs, p) /\ fs[p] = fs0[p])

\* the files that exist now and did not exist before the call
NewFiles == DOMAIN fs \ DOMAIN fs0

\* C7: after organize_files with operation copy, the number of files that
\* exist under the destination and did not exist before the call equals
\* success_count (stated for the calls in which no filesystem call failed
\* for a reason outside the batch).
C7_OneNewFilePerSuccess ==
    (opc = "done" /\ call.val.operation = "copy" /\ ret.val.ok /\ faults = 0)
        => Cardinality(NewFiles) = ret.val.val.success_count

\* C8: organize_files returns an error for the whole call if and only if
\* creating the destination root folder fails; in every other case it returns
\* an OrganizeResult and has attempted every file of the input list in input
\* order, whatever failures earlier files had.
C8_OnlyRootFailureIsFatal ==
    opc = "done" =>
        /\ ~ret.val.ok <=> ~call.val.root_created
        /\ ret.val.ok =>
               /\ Len(trace) = Len(call.val.files)
               /\ \A i \in DOMAIN trace : trace[i].file = i

\* C8 witness: a call has returned an OrganizeResult in which a file was
\* processed successfully after the category folder of an earlier file could
\* not be created.
C8_Witness ==
    /\ opc = "done"
    /\ ret.val.ok
    /\ \E i, j \in DOMAIN trace :
           i < j /\ trace[i].outcome = "create folder" /\ trace[j].outcome = "ok"

\* the message organize_files pushes for the failed file of trace entry i
ErrorOf(i) ==
    CASE trace[i].outcome = "create folder" ->
             fs_error(trace[i].category, "create folder")
      [] trace[i].outcome = "unknown operation" ->
             unknown_operation(call.val.operation)
      [] OTHER ->
             fs_error(call.val.files[i].filename, call.val.operation)

\* the messages of the failed files among the first k, in input order
RECURSIVE ErrorsUpTo(_)
ErrorsUpTo(k) ==
    IF k = 0 THEN <<>>
    ELSE IF trace[k].outcome = "ok" THEN ErrorsUpTo(k - 1)
    ELSE Append(ErrorsUpTo(k - 1), ErrorOf(k))

\* C9: for every OrganizeResult returned by organize_files, success_count +
\* error_count equals the number of input files, the errors list has exactly
\* error_count entries, the entries are in the input order of the files that
\* failed, and skipped_count is 0.
C9_ResultAccounting ==
    (opc = "done" /\ ret.val.ok) =>
        LET r == ret.val.val
        IN  /\ r.success_count + r.error_count = Len(call.val.files)
            /\ Len(r.errors) = r.error_count
            /\ r.errors = ErrorsUpTo(Len(trace))
            /\ r.skipped_count = 0

\* C9 witness: an OrganizeResult with a success and two failures whose
\* messages differ has been returned.
C9_Witness ==
    /\ opc = "done"
    /\ ret.val.ok
    /\ ret.val.val.success_count >= 1
    /\ ret.val.val.error_count = 2
    /\ ret.val.val.errors[1] # ret.val.val.errors[2]

RenameFailedCopiedNotRemoved ==
    << <<"rename", FALSE>>, <<"copy", TRUE>>, <<"remove_file", FALSE>> >>

\* C10: in organize_files with operation move, a file is counted as a success
\* only if right after its processing its source path no longer exists and
\* its destination path exists; when the rename fails the copy is attempted,
\* and if the copy succeeds but removing the source fails the file is counted
\* as an error with one message while source and destination both remain.
C10_MoveSuccessAndFallback ==
    (call.some /\ call.val.operation = "move") =>
        /\ success_count = Cardinality({i \in DOMAIN trace : trace[i].outcome = "ok"})
        /\ error_count = Len(trace) - success_count
        /\ Len(errors) = error_count
        /\ \A i \in DOMAIN trace :
               /\ trace[i].outcome = "ok" =>
                      ~trace[i].src_after /\ trace[i].dst_after
               /\ (trace[i].did # <<>> /\ trace[i].did[1] = <<"rename", FALSE>>) =>
                      Len(trace[i].did) >= 2 /\ trace[i].did[2][1] = "copy"
               /\ trace[i].did = RenameFailedCopiedNotRemoved =>
                      /\ trace[i].outcome = "failed"
                      /\ trace[i].src_after
                      /\ trace[i].dst_after

\* C10 witness: a move whose rename failed, whose copy succeeded and whose
\* removal of the source failed has been processed.
C10_Witness ==
    /\ call.some
    /\ call.val.operation = "move"
    /\ \E i \in DOMAIN trace : trace[i].did = RenameFailedCopiedNotRemoved

-----------------------------------------------------------------------------
(* get_file_category applied to every file and mode of a bounded set *)

\* file names with and without the prefix ES_, in either case, and a name
\* that stops inside the prefix
CategoryNames ==
    { <<"E", "S", "_", "a", ".", "m">>, <<"a", ".", "m">>,
      <<"e", "s", "_", "a", ".", "m">>, <<"E", "S">> }

CategoryOverrides == {None, Some(<<"O">>), Some(<<" ", "O">>), Some(<<>>)}
CategoryGenres == {None, Some(Str_R)}
CategoryMoods ==
    { None, Some(<<"M", ",", " ", "W">>), Some(<<" ", "M", " ", ",", "W">>),
      Some(<<"M">>), Some(<<",", "W">>), Some(<<>>) }
CategoryModes == {"genre", "mood", "override-only"}

CategoryFiles ==
    { AudioMetadata(<< <<"s">>, n >>, None, None, g, m, None, None, None, o) :
          n \in CategoryNames, g \in CategoryGenres, m \in CategoryMoods,
          o \in CategoryOverrides }

\* organize.rs:118
CallGetFileCategory(file, organize_by) ==
    /\ fcall' = Some([op |-> "get_file_category", file |-> file,
                      organize_by |-> organize_by,
                      result |-> get_file_category(file, organize_by)])
    /\ UNCHANGED <<handler, hpc, results, hret, hlog, lastClear, cleared>>
    /\ UNCHANGED <<cacheVars, initVars, orgVars>>

CategoryInit == CacheReady /\ OrgIdle /\ ExtIdle

CategoryNext ==
    \E file \in CategoryFiles, organize_by \in CategoryModes :
        CallGetFileCategory(file, organize_by)

SpecCategory == CategoryInit /\ [][CategoryNext]_vars

-----------------------------------------------------------------------------
(* Claims about get_file_category *)

CategoryCalled == fcall.some /\ fcall.val.op = "get_file_category"

\* the file name starts with the three characters E, S, _
HasPrefixES(name) ==
    Len(name) >= 3 /\ name[1] = "E" /\ name[2] = "S" /\ name[3] = "_"

\* C11: for every AudioMetadata whose filename does not start with the
\* literal prefix ES_, get_file_category returns SFX for every organize mode
\* and every value of category_override, genre and mood.
C11_NoPrefixIsSFX ==
    (CategoryCalled /\ ~HasPrefixES(fcall.val.file.filename))
        => fcall.val.result = <<"S", "F", "X">>

\* C11 witness: get_file_category was called in mode genre for a file whose
\* name starts with es_, with a category_override and a genre.
C11_Witness ==
    /\ CategoryCalled
    /\ fcall.val.file.filename[1] = "e"
    /\ fcall.val.file.category_override.some
    /\ fcall.val.file.genre.some
    /\ fcall.val.organize_by = "genre"

\* the text before the first comma of s (all of s when it has no comma)
FirstToken(s) ==
    IF \E i \in 1..Len(s) : s[i] = ","
    THEN LET k == CHOOSE i \in 1..Len(s) :
                      s[i] = "," /\ \A j \in 1..(i - 1) : s[j] # ","
         IN  [i \in 1..(k - 1) |-> s[i]]
    ELSE s

\* s without its leading and trailing spaces
Trimmed(s) ==
    LET inked == {i \in 1..Len(s) : s[i] # " "}
    IN  IF inked = {} THEN <<>>
        ELSE LET lo == CHOOSE i \in inked : \A j \in inked : i <= j
                 hi == CHOOSE i \in inked : \A j \in inked : j <= i
             IN  [i \in 1..(hi - lo + 1) |-> s[lo + i - 1]]

\* the reference resolution of C12
ReferenceCategory(file, mode) ==
    IF file.category_override.some THEN file.category_override.val
    ELSE IF mode = "genre" /\ file.genre.some THEN file.genre.val
    ELSE IF mode = "mood" /\ file.mood.some
         THEN Trimmed(FirstToken(file.mood.val))
    ELSE <<"U", "n", "k", "n", "o", "w", "n">>

\* C12: for every AudioMetadata whose filename starts with ES_,
\* get_file_category is the category_override verbatim if present; else the
\* genre under mode genre; else the first comma-separated token of the mood,
\* trimmed, under mode mood; and Unknown whenever the chosen field is absent
\* or the mode is neither genre nor mood.
C12_PrefixedFollowsReference ==
    (CategoryCalled /\ HasPrefixES(fcall.val.file.filename))
        => fcall.val.result =
               ReferenceCategory(fcall.val.file, fcall.val.organize_by)

\* C12 witness: get_file_category has returned M for an ES_ file without
\* override whose mood is " M ,W", in mode mood.
C12_Witness ==
    /\ CategoryCalled
    /\ HasPrefixES(fcall.val.file.filename)
    /\ ~fcall.val.file.category_override.some
    /\ fcall.val.organize_by = "mood"
    /\ fcall.val.file.mood = Some(<<" ", "M", " ", ",", "W">>)
    /\ fcall.val.result = <<"M">>

-----------------------------------------------------------------------------
(* Claims about clear_cache and clear_cache_for_files *)

\* the last get_cached_metadata call opened the store and looked up p
LookedUp(p) == lastGet.some /\ lastGet.val.opened /\ lastGet.val.path = p

\* C17: clear_cache returns the number of entries the cache held immediately
\* before the call (the number of distinct paths put and not yet removed),
\* and after it returns get_cached_metadata returns none for every one of
\* those paths until the path is put again.
C17_ClearReturnsPriorCount ==
    (lastClear.some /\ lastClear.val.op = "clear_cache"
                    /\ lastClear.val.result.ok) =>
        /\ lastClear.val.result.val = Cardinality(lastClear.val.held)
        /\ \A p \in lastClear.val.held \cap cleared :
               /\ p \notin DOMAIN rows
               /\ LookedUp(p) => lastGet.val.result = Ok(None)

\* C17 witness: clear_cache has returned 2 and a path it removed has been
\* looked up since, without a put in between.
C17_Witness ==
    /\ lastClear.some
    /\ lastClear.val.op = "clear_cache"
    /\ lastClear.val.result = Ok(2)
    /\ \E p \in lastClear.val.held \cap cleared : LookedUp(p)

\* the set of the paths given to the last clear call
Given == {lastClear.val.paths[i] : i \in DOMAIN lastClear.val.paths}

\* C18: clear_cache_for_files(paths) returns the number of cache entries it
\* removed, returns Ok also when some or all paths were never cached, leaves
\* the entries of all other paths unchanged, and after it returns the next
\* get_cached_metadata of every given path is a miss.
C18_InvalidateGivenPaths ==
    (lastClear.some /\ lastClear.val.op = "clear_cache_for_files") =>
        /\ (lastClear.val.opened \/ lastClear.val.paths = <<>>) =>
               lastClear.val.result.ok
        /\ lastClear.val.result.ok =>
               /\ lastClear.val.result.val =
                      Cardinality(Given \cap lastClear.val.held)
               /\ \A p \in CachePaths \ Given :
                      /\ p \in DOMAIN lastClear.val.after
                             <=> p \in DOMAIN lastClear.val.before
                      /\ p \in DOMAIN lastClear.val.before =>
                             lastClear.val.after[p] = lastClear.val.before[p]
               /\ \A p \in Given \cap cleared :
                      /\ p \notin DOMAIN rows
                      /\ LookedUp(p) => lastGet.val.result = Ok(None)

\* C18 witness: clear_cache_for_files has been given two paths of which one
\* was cached, has returned 1, and the cached path has been looked up since.
C18_Witness ==
    /\ lastClear.some
    /\ lastClear.val.op = "clear_cache_for_files"
    /\ lastClear.val.result = Ok(1)
    /\ Len(lastClear.val.paths) = 2
    /\ \E p \in Given \cap lastClear.val.held : p \in cleared /\ LookedUp(p)

-----------------------------------------------------------------------------
(* Duplicate detection (organize.rs:232-258, 275-314) *)

MaxDupFiles == 4

\* a source given by its bare file name, and a destination under category M
Src_a == << Name_a >>
Dst_M_a == << <<"o">>, <<"M">>, Name_a >>

DupFiles == OrgFiles \cup { Tagged(Src_a, Some(<<"M">>), None) }
DupLists == UNION {[1..n -> DupFiles] : n \in 0..MaxDupFiles}

\* mutant: the file name is joined to the output folder itself
duplicate_target_flat(output_path, safe_category, filename) ==
    join(output_path, filename)

\* organize.rs:245: output_path.join(&safe_category).join(&file.filename)
duplicate_target(output_path, safe_category, filename) ==
    join(join(output_path, safe_category), filename)

\* mod.rs:36-41
DuplicateInfo(source_path, source_filename, existing_path, category) ==
    [source_path |-> source_path, source_filename |-> source_filename,
     existing_path |-> existing_path, category |-> category]

\* organize.rs:241-255: the duplicates pushed for the first k files.
\* to_string_lossy leaves a path of valid characters as it is.
RECURSIVE find_duplicates_upto(_, _, _, _, _)
find_duplicates_upto(disk, files, output_folder, organize_by, k) ==
    IF k = 0 THEN <<>>
    ELSE LET duplicates == find_duplicates_upto(disk, files, output_folder,
                                                organize_by, k - 1)
             file == files[k]
             category == get_file_category(file, organize_by)
             safe_category == sanitize_folder_name(category)
             target_path == duplicate_target(output_folder, safe_category,
                                             file.filename)
         IN  IF exists(disk, target_path)
             THEN push(duplicates,
                       DuplicateInfo(file.path, file.filename, target_path,
                                     safe_category))
             ELSE duplicates

find_duplicates(disk, files, output_folder, organize_by) ==
    find_duplicates_upto(disk, files, output_folder, organize_by, Len(files))

\* a request of the frontend: the arguments the two commands are called with
DuplicateRequest(files, output_folder, organize_by) ==
    [op |-> "request", files |-> files, output_folder |-> output_folder,
     organize_by |-> organize_by, disk |-> fs, table |-> rows,
     result |-> <<>>]

FindDuplicates ==
    /\ fcall.some
    /\ fcall' = Some([fcall.val EXCEPT
                         !.op = "find_duplicates",
                         !.disk = fs,
                         !.table = rows,
                         !.result = find_duplicates(fs, fcall.val.files,
                                                    fcall.val.output_folder,
                                                    fcall.val.organize_by)])
    /\ UNCHANGED <<handler, hpc, results, hret, hlog, lastClear, cleared>>
    /\ UNCHANGED <<cacheVars, initVars, orgVars>>

\* organize.rs:290-295: the name of the parent folder, for display
parent_folder(path) ==
    IF Len(path) >= 2 THEN path[Len(path) - 1] ELSE Str_Unknown

\* organize.rs:298-301
SourceDuplicateFile(path, folder) == [path |-> path, folder |-> folder]

\* organize.rs:308-312
SourceDuplicateGroup(filename, category, files) ==
    [filename |-> filename, category |-> category, files |-> files]

\* organize.rs:284-302: the HashMap after the first k files
RECURSIVE group_files(_, _, _)
group_files(files, organize_by, k) ==
    IF k = 0 THEN EmptyTable
    ELSE LET groups == group_files(files, organize_by, k - 1)
             file == files[k]
             category == get_file_category(file, organize_by)
             safe_category == sanitize_folder_name(category)
             folder == parent_folder(file.path)
             key == <<file.filename, safe_category>>
             entry == IF key \in DOMAIN groups THEN groups[key] ELSE <<>>
         IN  Upsert(groups, key,
                    Append(entry, SourceDuplicateFile(file.path, folder)))

\* mutant: every group is kept
is_group(files) == Len(files) > 0

\* organize.rs:307: .filter(|(_, files)| files.len() > 1)
is_duplicate_group(files) == Len(files) > 1

\* organize.rs:305-313: the groups collected, without their order
find_source_duplicates(files, organize_by) ==
    LET groups == group_files(files, organize_by, Len(files))
    IN  { SourceDuplicateGroup(key[1], key[2], groups[key]) :
              key \in {k \in DOMAIN groups : is_duplicate_group(groups[k])} }

\* HashMap::into_iter yields the groups in an order the caller cannot
\* predict: the returned Vec is any arrangement of them.
FindSourceDuplicates ==
    /\ fcall.some
    /\ LET found == find_source_duplicates(fcall.val.files,
                                           fcall.val.organize_by)
       IN  \E result \in [1..Cardinality(found) -> found] :
              /\ \A i, j \in DOMAIN result : result[i] = result[j] => i = j
              /\ fcall' = Some([fcall.val EXCEPT
                                   !.op = "find_source_duplicates",
                                   !.disk = fs,
                                   !.table = rows,
                                   !.result = result])
    /\ UNCHANGED <<handler, hpc, results, hret, hlog, lastClear, cleared>>
    /\ UNCHANGED <<cacheVars, initVars, orgVars>>

\* no call made yet: a disk, and the request the commands will be given
DuplicatesInit ==
    /\ CacheReady
    /\ \E present \in SUBSET {Dst_R_a, Dst_R_a_1, Dst_M_a} :
          fs = DiskOf({Src_s_a, Src_t_a, Src_s_a_1, Src_a} \cup present)
    /\ \E files \in DupLists, organize_by \in OrganizeBy :
          fcall = Some(DuplicateRequest(files, OutputFolder, organize_by))
    /\ handler = None
    /\ hpc = "idle"
    /\ results = <<>>
    /\ hret = None
    /\ hlog = <<>>
    /\ lastClear = None
    /\ cleared = {}
    /\ call = None
    /\ opc = "idle"
    /\ idx = 0
    /\ used_names = EmptyTable
    /\ success_count = 0
    /\ error_count = 0
    /\ errors = <<>>
    /\ ret = None
    /\ fs0 = EmptyTable
    /\ faults = 0
    /\ trace = <<>>

DuplicatesNext ==
    \/ FindDuplicates
    \/ FindSourceDuplicates

SpecDuplicates == DuplicatesInit /\ [][DuplicatesNext]_vars

-----------------------------------------------------------------------------
(* Claims about find_source_duplicates and find_duplicates *)

\* the sanitized category of a file
SafeCategory(file, organize_by) ==
    sanitize_folder_name(get_file_category(file, organize_by))

\* the positions of the input files with this file name and category
Sharing(files, organize_by, filename, category) ==
    {i \in DOMAIN files : /\ files[i].filename = filename
                          /\ SafeCategory(files[i], organize_by) = category}

\* the n-th smallest position of a set of positions
Nth(positions, n) ==
    CHOOSE i \in positions : Cardinality({k \in positions : k < i}) = n - 1

SourceDuplicatesCalled == fcall.some /\ fcall.val.op = "find_source_duplicates"

\* C19: find_source_duplicates returns a group for a (filename, sanitized
\* category) pair exactly when at least two input files have that pair; each
\* such file is a member of exactly one group, the members of a group are in
\* input order, and a list of files with pairwise distinct pairs gives the
\* empty list.
C19_GroupsAreSharedPairs ==
    SourceDuplicatesCalled =>
        LET files == fcall.val.files
            by == fcall.val.organize_by
            result == fcall.val.result
            Pair(i) == <<files[i].filename, SafeCategory(files[i], by)>>
            Shared(i) == \E j \in DOMAIN files : j # i /\ Pair(j) = Pair(i)
        IN  /\ \A i \in DOMAIN files :
                   Cardinality({g \in DOMAIN result :
                                   /\ result[g].filename = Pair(i)[1]
                                   /\ result[g].category = Pair(i)[2]})
                       = IF Shared(i) THEN 1 ELSE 0
            /\ \A g \in DOMAIN result :
                   LET members == Sharing(files, by, result[g].filename,
                                          result[g].category)
                   IN  /\ Cardinality(members) >= 2
                       /\ Len(result[g].files) = Cardinality(members)
                       /\ \A n \in DOMAIN result[g].files :
                              result[g].files[n].path
                                  = files[Nth(members, n)].path
            /\ (\A i \in DOMAIN files : ~Shared(i)) => result = <<>>

\* C19 witness: four files of which two pairs share a name and a category:
\* two groups of two members are returned.
C19_Witness ==
    /\ SourceDuplicatesCalled
    /\ Len(fcall.val.files) = 4
    /\ Len(fcall.val.result) = 2
    /\ \A g \in DOMAIN fcall.val.result : Len(fcall.val.result[g].files) = 2

DuplicatesCalled == fcall.some /\ fcall.val.op = "find_duplicates"

\* the positions of the input files whose destination exists on the disk
Existing(disk, files, output_folder, organize_by) ==
    {i \in DOMAIN files :
        <<output_folder[1], SafeCategory(files[i], organize_by),
          files[i].filename>> \in DOMAIN disk}

\* C20: find_duplicates returns, in input order, exactly one DuplicateInfo for
\* each input file for which destination/sanitized-category/filename exists,
\* none for the other files, and changes neither the filesystem nor the cache.
C20_OnePerExistingTarget ==
    DuplicatesCalled =>
        LET files == fcall.val.files
            by == fcall.val.organize_by
            result == fcall.val.result
            hits == Existing(fcall.val.disk, files, fcall.val.output_folder, by)
        IN  /\ Len(result) = Cardinality(hits)
            /\ \A n \in DOMAIN result :
                   LET file == files[Nth(hits, n)]
                   IN  /\ result[n].source_path = file.path
                       /\ result[n].source_filename = file.filename
                       /\ result[n].category = SafeCategory(file, by)
                       /\ result[n].existing_path =
                              <<fcall.val.output_folder[1],
                                SafeCategory(file, by), file.filename>>
            /\ fs = fcall.val.disk
            /\ rows = fcall.val.table

\* C20 witness: of three files the first and the last have an existing
\* destination and the second has none: two entries are returned.
C20_Witness ==
    /\ DuplicatesCalled
    /\ Len(fcall.val.files) = 3
    /\ Existing(fcall.val.disk, fcall.val.files, fcall.val.output_folder,
                fcall.val.organize_by) = {1, 3}
    /\ Len(fcall.val.result) = 2

-----------------------------------------------------------------------------
(* The scan handlers (main.rs:14-65, 120-157; metadata.rs:178-209).
   handler is the running call: its command, its paths, the position i of
   the loop and the record read and not yet handed to the cache.  hlog has
   one entry per path the loop has dealt with: whether the cache held a valid
   entry when the handler turned to the path, and the results of the lookup,
   of the reader and of the cache write, where they were called. *)

\* the directory scanned, and a file in it that is not an audio file
ScanDir == << <<"s">> >>
PathC == << <<"s">>, <<"c", ".", "m">> >>

\* str::to_lowercase on the letters that occur
to_lowercase_char(c) ==
    CASE c = "W" -> "w" [] c = "A" -> "a" [] c = "V" -> "v"
      [] c = "M" -> "m" [] c = "P" -> "p" [] OTHER -> c

to_lowercase(str) == [i \in DOMAIN str |-> to_lowercase_char(str[i])]

\* metadata.rs:192-194
is_audio_file(path) ==
    LET ext_lower == to_lowercase(extension(file_name(path)))
    IN  ext_lower = <<"m", "p", "3">> \/ ext_lower = <<"w", "a", "v">>

\* WalkDir::new(dir_path): the files found below the directory
walk_dir(dir_path) ==
    {p \in CachePaths \cup {PathC} :
        /\ SubSeq(p, 1, Len(p) - 1) = dir_path
        /\ p \in CachePaths => stat[p].some}

\* mutant: a file that cannot be read gives an empty record, not an error
read_audio_metadata_lenient(path) ==
    IF ~stat[path].some
    THEN Ok(AudioMetadata(path, None, None, None, None, None, None, None, None))
    ELSE Ok(AudioMetadata(path, Some(<<"T">>), None, Some(<<"R">>), None, None,
                          Some(stat[path].val.mtime), Some(1), None))

\* metadata.rs:56-176: the record read from the file's tags.  The tags are
\* the file's content: a rewritten file (another mtime) carries another bpm.
read_audio_metadata_full(path) ==
    IF ~stat[path].some THEN Err("File not found")
    ELSE Ok(AudioMetadata(path, Some(<<"T">>), None, Some(<<"R">>), None, None,
                          Some(stat[path].val.mtime), Some(1), None))

\* main.rs:36-51, 135-150: the record returned for a file that cannot be read
Placeholder(path) ==
    AudioMetadata(path, None, None, None, None, None, None, None, None)

\* the cache holds an entry of the path with the identity of the live file
HasValidEntry(path) ==
    /\ path \in DOMAIN rows
    /\ rows[path].file_modified = file_modified_of(fs_metadata(path))
    /\ rows[path].file_size = file_size_of(fs_metadata(path))

\* cache.rs:63-116, called by one caller at a time
init_database_result ==
    IF ~get_connection.ok THEN Err("Failed to open database") ELSE Ok("unit")

LogEntry(path, lookup, read, put) ==
    [path |-> path, held |-> path \in DOMAIN rows,
     valid |-> HasValidEntry(path), lookup |-> lookup, read |-> read,
     put |-> put]

\* the loop goes on to the next path, or the handler returns Ok(results)
Proceed(new_results, first_step) ==
    /\ results' = new_results
    /\ IF handler.val.i < Len(handler.val.paths)
       THEN /\ handler' = Some([handler.val EXCEPT !.i = @ + 1,
                                                   !.pending = None])
            /\ hpc' = first_step
            /\ UNCHANGED hret
       ELSE /\ handler' = Some([handler.val EXCEPT !.pending = None])
            /\ hpc' = "done"
            /\ hret' = Some(Ok(new_results))

FirstStep(op) == IF op = "scan_audio_files" THEN "lookup" ELSE "read"

\* the frontend invokes a command; one handler runs at a time
HandlerStart(op, paths) ==
    /\ hpc \in {"idle", "done"}
    /\ handler' = Some([op |-> op, paths |-> paths, i |-> 1, pending |-> None])
    /\ hpc' = IF op = "rescan_files" THEN "clear" ELSE "init"
    /\ results' = <<>>
    /\ hret' = None
    /\ hlog' = <<>>
    /\ UNCHANGED <<fcall, lastClear, cleared>>
    /\ UNCHANGED <<cacheVars, initVars, orgVars>>

\* main.rs:16, 63: init_database()?
HandlerInit ==
    /\ hpc = "init"
    /\ IF init_database_result.ok
       THEN /\ tables' = TRUE
            /\ rows' = IF migration_name \in ledger THEN rows ELSE EmptyTable
            /\ ledger' = ledger \cup {migration_name}
            /\ IF handler.val.op = "scan_directory"
               THEN /\ hpc' = "walk"
                    /\ UNCHANGED hret
               ELSE IF handler.val.paths = <<>>
               THEN /\ hpc' = "done"
                    /\ hret' = Some(Ok(<<>>))
               ELSE /\ hpc' = "lookup"
                    /\ UNCHANGED hret
       ELSE /\ hpc' = "done"
            /\ hret' = Some(init_database_result)
            /\ UNCHANGED <<tables, rows, ledger>>
    /\ UNCHANGED <<stat, dbOpenable, lastGet, putLog>>
    /\ UNCHANGED <<fcall, handler, results, hlog, lastClear, cleared>>
    /\ UNCHANGED <<initVars, orgVars>>

\* metadata.rs:184-194: the audio files of the directory, in the order the
\* walk yields them (the order of the directory's entries is not specified)
HandlerWalk ==
    /\ hpc = "walk"
    /\ LET found == {p \in walk_dir(ScanDir) : is_audio_file(p)}
       IN  \E order \in [1..Cardinality(found) -> found] :
              /\ \A i, j \in DOMAIN order : order[i] = order[j] => i = j
              /\ handler' = Some([handler.val EXCEPT !.paths = order])
              /\ IF order = <<>>
                 THEN /\ hpc' = "done"
                      /\ hret' = Some(Ok(<<>>))
                 ELSE /\ hpc' = "read"
                      /\ UNCHANGED hret
    /\ UNCHANGED <<fcall, results, hlog, lastClear, cleared>>
    /\ UNCHANGED <<cacheVars, initVars, orgVars>>

\* main.rs:122: clear_cache_for_files(&paths)?
HandlerClear ==
    /\ hpc = "clear"
    /\ LET cleared_files == clear_cache_for_files(handler.val.paths)
       IN  /\ rows' = cleared_files.table
           /\ IF ~cleared_files.result.ok
              THEN /\ hpc' = "done"
                   /\ hret' = Some(cleared_files.result)
              ELSE IF handler.val.paths = <<>>
              THEN /\ hpc' = "done"
                   /\ hret' = Some(Ok(<<>>))
              ELSE /\ hpc' = "read"
                   /\ UNCHANGED hret
    /\ UNCHANGED <<stat, tables, ledger, dbOpenable, lastGet, putLog>>
    /\ UNCHANGED <<fcall, handler, results, hlog, lastClear, cleared>>
    /\ UNCHANGED <<initVars, orgVars>>

\* main.rs:22-25: the cache is looked up first
HandlerLookup ==
    /\ hpc = "lookup"
    /\ LET path == handler.val.paths[handler.val.i]
           cached == get_cached_metadata(path)
           entry == LogEntry(path, Some(cached), None, None)
       IN  /\ hlog' = Append(hlog, entry)
           /\ IF cached.ok /\ cached.val.some
              THEN Proceed(push(results, cached.val.val), "lookup")
              ELSE /\ hpc' = "read"
                   /\ UNCHANGED <<handler, results, hret>>
    /\ UNCHANGED <<fcall, lastClear, cleared>>
    /\ UNCHANGED <<cacheVars, initVars, orgVars>>

\* main.rs:28, 126; metadata.rs:196: the reader is called, and a file that
\* cannot be read gives a placeholder (main.rs) or nothing (metadata.rs)
HandlerRead ==
    /\ hpc = "read"
    /\ LET op == handler.val.op
           path == handler.val.paths[handler.val.i]
           metadata == read_audio_metadata_full(path)
       IN  /\ hlog' = IF op = "scan_audio_files"
                      THEN [hlog EXCEPT ![Len(hlog)].read = Some(metadata)]
                      ELSE Append(hlog, LogEntry(path, None, Some(metadata),
                                                 None))
           /\ IF op = "scan_directory"
              THEN Proceed(IF metadata.ok THEN push(results, metadata.val)
                           ELSE results, "read")
              ELSE IF metadata.ok
              THEN /\ handler' = Some([handler.val EXCEPT
                                          !.pending = Some(metadata.val)])
                   /\ hpc' = "put"
                   /\ UNCHANGED <<results, hret>>
              ELSE Proceed(push(results, Placeholder(path)), FirstStep(op))
    /\ UNCHANGED <<fcall, lastClear, cleared>>
    /\ UNCHANGED <<cacheVars, initVars, orgVars>>

\* main.rs:31-32, 129-130: let _ = cache_metadata(&metadata); results.push
HandlerPut ==
    /\ hpc = "put"
    /\ LET metadata == handler.val.pending.val
           file_meta == fs_metadata(metadata.path)
       IN  /\ rows' = IF cache_metadata_result.ok
                      THEN Upsert(rows, metadata.path,
                                  NewRow(metadata, file_modified_of(file_meta),
                                         file_size_of(file_meta)))
                      ELSE rows
           /\ hlog' = [hlog EXCEPT ![Len(hlog)].put = Some(cache_metadata_result)]
           /\ Proceed(push(results, metadata), FirstStep(handler.val.op))
    /\ UNCHANGED <<stat, tables, ledger, dbOpenable, lastGet, putLog>>
    /\ UNCHANGED <<fcall, lastClear, cleared>>
    /\ UNCHANGED <<initVars, orgVars>>

ScanCommands == {"scan_audio_files", "rescan_files"}

ScanInit == CacheReady /\ OrgIdle /\ ExtIdle

\* the file s/a.mp3 is rewritten and removed while the handlers run;
\* s/b.WAV stays as it is
ScanNext ==
    \/ \E op \in ScanCommands, paths \in PathLists : HandlerStart(op, paths)
    \/ HandlerStart("scan_directory", <<>>)
    \/ HandlerInit
    \/ HandlerWalk
    \/ HandlerClear
    \/ HandlerLookup
    \/ HandlerRead
    \/ HandlerPut
    \/ \E mtime \in Mtimes : FileWritten(PathA, mtime, MaxSize)
    \/ FileRemoved(PathA)
    \/ StoreAvailability

SpecScan == ScanInit /\ [][ScanNext]_vars

-----------------------------------------------------------------------------
(* Claims about scan_audio_files, rescan_files and scan_directory *)

\* the running or finished call is one of this command
Running(op) == handler.some /\ handler.val.op = op

\* the call of this command has returned
Returned(op) == Running(op) /\ hret.some

\* C13: a failure of the cache store to open, read or write never makes
\* scan_audio_files or rescan_files fail as a whole: each still returns one
\* record per input path.
C13_StoreFailureNeverFatal ==
    \A op \in ScanCommands :
        Returned(op) =>
            /\ hret.val.ok
            /\ Len(hret.val.val) = Len(handler.val.paths)

\* the lookup of a log entry returned a record
Hit(e) == e.lookup.some /\ e.lookup.val.ok /\ e.lookup.val.val.some

\* the reader was called for a log entry and returned a record
ReadOk(e) == e.read.some /\ e.read.val.ok

\* C14: scan_audio_files returns exactly one record per input path, in input
\* order: the cached record when the lookup returns a valid entry, otherwise
\* the record produced by the reader, which is then handed to the cache, and
\* when the reader fails a placeholder with that path, its file name and
\* every tag field absent.
C14_ScanOneRecordPerPath ==
    Returned("scan_audio_files") =>
        /\ hret.val.ok
        /\ Len(hret.val.val) = Len(handler.val.paths)
        /\ Len(hlog) = Len(handler.val.paths)
        /\ \A i \in DOMAIN handler.val.paths :
               LET path == handler.val.paths[i]
                   e == hlog[i]
                   record == hret.val.val[i]
               IN  /\ e.path = path
                   /\ record.path = path
                   /\ IF Hit(e)
                      THEN /\ record = e.lookup.val.val.val
                           /\ e.read = None
                      ELSE IF ReadOk(e)
                      THEN /\ record = e.read.val.val
                           /\ e.put.some
                      ELSE /\ e.read.some
                           /\ e.put = None
                           /\ record = [path |-> path,
                                        filename |-> path[Len(path)],
                                        title |-> None, artist |-> None,
                                        genre |-> None, mood |-> None,
                                        energy |-> None, bpm |-> None,
                                        duration_secs |-> None,
                                        category_override |-> None]

\* rescan_files never looks a record up: whatever it has returned is, path
\* by path, what the reader gave or a placeholder, and the first time it
\* turns to a path the cache holds no entry of it
RescanReadsAfterRemoval ==
    /\ \A i \in DOMAIN hlog :
          /\ hlog[i].path = handler.val.paths[i]
          /\ hlog[i].lookup = None
          /\ hlog[i].read.some
          /\ (\A j \in 1..(i - 1) : hlog[j].path # hlog[i].path)
                 => ~hlog[i].held
    /\ hret.val.ok =>
          /\ Len(hret.val.val) = Len(handler.val.paths)
          /\ \A i \in DOMAIN hret.val.val :
                 hret.val.val[i] = IF ReadOk(hlog[i]) THEN hlog[i].read.val.val
                                   ELSE Placeholder(hlog[i].path)

\* the log entries of the successful reads of a path, and of those whose
\* cache write succeeded
Reads(path) == {i \in DOMAIN hlog : hlog[i].path = path /\ ReadOk(hlog[i])}
Writes(path) ==
    {i \in Reads(path) : hlog[i].put.some /\ hlog[i].put.val.ok}
Last(positions) == CHOOSE i \in positions : \A j \in positions : j <= i

C16_ReaderOnlyOnMiss ==
    \A i \in DOMAIN hlog :
        hlog[i].read.some =>
            \/ ~hlog[i].valid
            \/ Running("rescan_files")

-----------------------------------------------------------------------------
(* preview_organization (organize.rs:210-230) *)

\* a file without the ES_ prefix
Src_sfx == << <<"s">>, <<"a", ".", "m">> >>

\* the files previewed: those organized, one whose override and mood need
\* sanitizing, and one that is not an Epidemic Sound file
PreviewFiles ==
    OrgFiles \cup { Tagged(Src_a, Some(<<"M", ":">>), Some(<<" ", "R">>)),
                    Tagged(Src_s_a_1, Some(<<"M", ":">>), None),
                    Tagged(Src_sfx, None, None) }
PreviewLists == UNION {[1..n -> PreviewFiles] : n \in 0..MaxFiles}

\* mutant: the category is used as the key as it is
preview_key_raw(category) == category

\* organize.rs:221: the key of the preview map
preview_key(category) == sanitize_folder_name(category)

\* organize.rs:218-227: the map after the first k files
RECURSIVE preview_upto(_, _, _)
preview_upto(files, organize_by, k) ==
    IF k = 0 THEN EmptyTable
    ELSE LET preview == preview_upto(files, organize_by, k - 1)
             file == files[k]
             category == get_file_category(file, organize_by)
             safe_category == preview_key(category)
             entry == IF safe_category \in DOMAIN preview
                      THEN preview[safe_category] ELSE <<>>
         IN  Upsert(preview, safe_category, push(entry, file.filename))

preview_organization(files, organize_by) ==
    preview_upto(files, organize_by, Len(files))

PreviewOrganization ==
    /\ fcall.some
    /\ fcall' = Some([fcall.val EXCEPT
                         !.op = "preview_organization",
                         !.disk = fs,
                         !.table = rows,
                         !.result = preview_organization(fcall.val.files,
                                                         fcall.val.organize_by)])
    /\ UNCHANGED <<handler, hpc, results, hret, hlog, lastClear, cleared>>
    /\ UNCHANGED <<cacheVars, initVars, orgVars>>

\* no call made yet: the sources on the disk, and the request
PreviewInit ==
    /\ CacheReady
    /\ fs = DiskOf({Src_s_a, Src_t_a, Src_s_a_1, Src_a, Src_sfx})
    /\ \E files \in PreviewLists, organize_by \in CategoryModes :
          fcall = Some(DuplicateRequest(files, OutputFolder, organize_by))
    /\ handler = None
    /\ hpc = "idle"
    /\ results = <<>>
    /\ hret = None
    /\ hlog = <<>>
    /\ lastClear = None
    /\ cleared = {}
    /\ call = None
    /\ opc = "idle"
    /\ idx = 0
    /\ used_names = EmptyTable
    /\ success_count = 0
    /\ error_count = 0
    /\ errors = <<>>
    /\ ret = None
    /\ fs0 = EmptyTable
    /\ faults = 0
    /\ trace = <<>>

PreviewNext == PreviewOrganization

SpecPreview == PreviewInit /\ [][PreviewNext]_vars

-----------------------------------------------------------------------------
(* Claims about preview_organization *)

PreviewCalled == fcall.some /\ fcall.val.op = "preview_organization"

\* the folder organize_files places a file in (organize.rs:55-61), below
\* the destination
PlacedIn(file, organize_by) ==
    LET category_path ==
            join(OutputFolder,
                 sanitize_folder_name(get_file_category(file, organize_by)))
    IN  category_path[Len(category_path)]

\* C21: preview_organization lists every input file exactly once (with
\* multiplicity), in input order within its list, under the key that is the
\* sanitized category folder organize_files would place that file in for the
\* same mode; it touches no file and always succeeds.
C21_PreviewMatchesPlacement ==
    PreviewCalled =>
        LET files == fcall.val.files
            by == fcall.val.organize_by
            preview == fcall.val.result
            At(key) == {i \in DOMAIN files : PlacedIn(files[i], by) = key}
        IN  /\ DOMAIN preview = {PlacedIn(files[i], by) : i \in DOMAIN files}
            /\ \A key \in DOMAIN preview :
                   /\ Len(preview[key]) = Cardinality(At(key))
                   /\ \A n \in DOMAIN preview[key] :
                          \E i \in At(key) :
                              /\ Cardinality({k \in At(key) : k < i}) = n - 1
                              /\ preview[key][n] = files[i].filename
            /\ fs = fcall.val.disk
            /\ rows = fcall.val.table

\* C21 witness: three files are previewed, of which the override " R" and
\* the genre R are listed under the one key R, after sanitizing.
C21_Witness ==
    /\ PreviewCalled
    /\ Len(fcall.val.files) = 3
    /\ \E i \in DOMAIN fcall.val.files :
          fcall.val.files[i].category_override = Some(<<" ", "R">>)
    /\ DOMAIN fcall.val.result = {<<"R">>}
    /\ Len(fcall.val.result[<<"R">>]) = 3

-----------------------------------------------------------------------------
(* delete_duplicates (organize.rs:260-273) *)

\* the files the frontend may ask to delete: destinations found by
\* find_duplicates, present or not when the call is made
DeletePaths == {Dst_R_a, Dst_R_a_1, Dst_M_a}
DeleteLists == UNION {[1..n -> DeletePaths] : n \in 0..MaxPaths}

\* mutant: nothing is attempted after the first failure
delete_step_abort(acc, path, remove_ok) ==
    LET removed == fs_remove_file(acc.disk, path, remove_ok)
    IN  IF acc.errors # <<>> THEN acc
        ELSE [disk |-> removed.disk,
              deleted_count |-> acc.deleted_count + (IF removed.ok THEN 1 ELSE 0),
              errors |-> IF removed.ok THEN acc.errors
                         ELSE push(acc.errors, fs_error(path, "delete")),
              did |-> Append(acc.did, [path |-> path, ok |-> removed.ok])]

\* organize.rs:265-270: one path of the loop
delete_step(acc, path, remove_ok) ==
    LET removed == fs_remove_file(acc.disk, path, remove_ok)
    IN  [disk |-> removed.disk,
         deleted_count |-> acc.deleted_count + (IF removed.ok THEN 1 ELSE 0),
         errors |-> IF removed.ok THEN acc.errors
                    ELSE push(acc.errors, fs_error(path, "delete")),
         did |-> Append(acc.did, [path |-> path, ok |-> removed.ok])]

RECURSIVE delete_upto(_, _, _, _)
delete_upto(disk, paths, env, k) ==
    IF k = 0 THEN [disk |-> disk, deleted_count |-> 0, errors |-> <<>>,
                   did |-> <<>>]
    ELSE delete_step(delete_upto(disk, paths, env, k - 1), paths[k], env[k])

\* organize.rs:261-273; env[k] tells whether the environment lets the k-th
\* path be removed (permissions, a file in use)
delete_duplicates(disk, paths, env) ==
    LET done == delete_upto(disk, paths, env, Len(paths))
    IN  [disk |-> done.disk, did |-> done.did,
         result |-> Ok(<<done.deleted_count, done.errors>>)]

DeleteDuplicates(paths, env) ==
    /\ fs' = delete_duplicates(fs, paths, env).disk
    /\ fcall' = Some([op |-> "delete_duplicates", paths |-> paths, env |-> env,
                      disk |-> fs, table |-> rows,
                      after |-> delete_duplicates(fs, paths, env).disk,
                      did |-> delete_duplicates(fs, paths, env).did,
                      result |-> delete_duplicates(fs, paths, env).result])
    /\ UNCHANGED <<call, opc, idx, used_names, success_count, error_count,
                   errors, ret, fs0, faults, trace>>
    /\ UNCHANGED <<handler, hpc, results, hret, hlog, lastClear, cleared>>
    /\ UNCHANGED <<cacheVars, initVars>>

\* a file appears in a destination folder (an organize_files call put it there)
FilePlaced(path) ==
    /\ path \notin DOMAIN fs
    /\ fs' = Upsert(fs, path, path)
    /\ UNCHANGED <<call, opc, idx, used_names, success_count, error_count,
                   errors, ret, fs0, faults, trace>>
    /\ UNCHANGED <<cacheVars, initVars, extVars>>

DeleteInit == OrganizeInit

DeleteNext ==
    \/ \E paths \in DeleteLists :
          \E env \in [DOMAIN paths -> BOOLEAN] : DeleteDuplicates(paths, env)
    \/ \E path \in DeletePaths : FilePlaced(path)

SpecDelete == DeleteInit /\ [][DeleteNext]_vars

-----------------------------------------------------------------------------
(* Claims about delete_duplicates *)

DeleteCalled == fcall.some /\ fcall.val.op = "delete_duplicates"

\* C22: delete_duplicates attempts every given path in order, continuing past
\* failures, and always returns Ok with deleted_count + number of error
\* strings equal to the number of given paths; each path that existed and
\* could be removed is absent afterwards.
C22_BestEffortDelete ==
    DeleteCalled =>
        LET paths == fcall.val.paths
            did == fcall.val.did
            result == fcall.val.result
        IN  /\ Len(did) = Len(paths)
            /\ \A i \in DOMAIN paths : did[i].path = paths[i]
            /\ result.ok
            /\ result.val[1] + Len(result.val[2]) = Len(paths)
            /\ \A i \in DOMAIN paths :
                   (paths[i] \in DOMAIN fcall.val.disk /\ fcall.val.env[i])
                       => paths[i] \notin DOMAIN fcall.val.after
            /\ \A p \in DOMAIN fcall.val.disk :
                   (\A i \in DOMAIN paths : paths[i] # p)
                       => (p \in DOMAIN fcall.val.after
                           /\ fcall.val.after[p] = fcall.val.disk[p])

\* C22 witness: of two given paths one does not exist, which gives an error
\* string, and the other existed and has been removed.
C22_Witness ==
    /\ DeleteCalled
    /\ Len(fcall.val.paths) = 2
    /\ fcall.val.paths[1] \notin DOMAIN fcall.val.disk
    /\ fcall.val.paths[2] \in DOMAIN fcall.val.disk
    /\ fcall.val.result = Ok(<<1, <<fs_error(fcall.val.paths[1], "delete")>> >>)
    /\ fcall.val.paths[2] \notin DOMAIN fs

-----------------------------------------------------------------------------
(* Cache operations of concurrent commands (cache.rs:57-60, 118-123,
   223-234; main.rs:88-91).  DB, the Mutex<Option<Connection>>, is locked by
   init_database alone (cache.rs:112); every cache operation opens a
   connection of its own with get_connection and holds no lock.  The
   clear_metadata_cache command runs clear_cache statement by statement
   while other commands call cache_metadata and get_cached_metadata. *)

\* main.rs:89: the command is invoked
ClearStart ==
    /\ hpc \in {"idle", "done"}
    /\ handler' = Some([op |-> "clear_metadata_cache", paths |-> <<>>,
                        i |-> 0, pending |-> None])
    /\ hpc' = "count"
    /\ results' = <<>>
    /\ hret' = None
    /\ hlog' = <<>>
    /\ UNCHANGED <<fcall, lastClear, cleared>>
    /\ UNCHANGED <<cacheVars, initVars, orgVars>>

\* cache.rs:224-228: get_connection()? and SELECT COUNT(*), read as 0 when
\* it fails; handler.i holds count
ClearCount ==
    /\ hpc = "count"
    /\ IF get_connection.ok
       THEN /\ handler' = Some([handler.val EXCEPT
                                   !.i = IF tables THEN select_count(rows) ELSE 0])
            /\ lastClear' = Some([op |-> "clear_cache", paths |-> <<>>,
                                  opened |-> TRUE, held |-> Held,
                                  before |-> rows, after |-> rows,
                                  result |-> Ok(IF tables THEN select_count(rows)
                                                ELSE 0)])
            /\ hpc' = "delete"
            /\ UNCHANGED hret
       ELSE /\ hret' = Some(get_connection)
            /\ hpc' = "done"
            /\ UNCHANGED <<handler, lastClear>>
    /\ UNCHANGED <<fcall, results, hlog, cleared>>
    /\ UNCHANGED <<cacheVars, initVars, orgVars>>

\* cache.rs:230-233: DELETE FROM audio_metadata on the connection opened, and
\* Ok(count as u32)
ClearDelete ==
    /\ hpc = "delete"
    /\ IF tables
       THEN /\ rows' = EmptyTable
            /\ cleared' = cleared \cup DOMAIN rows
            /\ hret' = Some(Ok(handler.val.i))
       ELSE /\ hret' = Some(Err("Failed to clear cache"))
            /\ UNCHANGED <<rows, cleared>>
    /\ hpc' = "done"
    /\ lastGet' = None
    /\ UNCHANGED <<stat, tables, ledger, dbOpenable, putLog>>
    /\ UNCHANGED <<fcall, handler, results, hlog, lastClear>>
    /\ UNCHANGED <<initVars, orgVars>>

ConcurrentInit == CacheReady /\ OrgIdle /\ ExtIdle

ConcurrentNext ==
    \/ ClearStart
    \/ ClearCount
    \/ ClearDelete
    \/ \E metadata \in CacheRecords : CacheMetadata(metadata)
    \/ \E file_path \in CachePaths : GetCachedMetadata(file_path)
    \/ StoreAvailability

SpecConcurrent == ConcurrentInit /\ [][ConcurrentNext]_vars

-----------------------------------------------------------------------------
(* Claims about concurrent cache operations *)

\* C23: all cache operations run through one connection guarded by a mutex,
\* so that concurrent callers are serialized: the count-and-delete steps of
\* clear_cache do not interleave with another cache operation, so the table
\* the DELETE finds is the table the COUNT saw.
C23_CacheOperationsSerialized ==
    (handler.some /\ handler.val.op = "clear_metadata_cache" /\ hpc = "delete")
        => rows = lastClear.val.before

-----------------------------------------------------------------------------
(* generate_unique_filename over one batch (organize.rs:50, 157-208): the
   requests of a batch share used_names, and files are placed in the
   destination folders between the requests.  trace holds the requests of
   the batch with the disk each of them saw. *)

\* two names with an extension and one without
NamingNames == {Name_a, Name_a_1, <<"E", "S", "_", "b">>}
NamingCategories == {Str_R, <<"M">>}

GenerateUniqueFilename(original_name, category) ==
    /\ Len(trace) < MaxFiles
    /\ LET folder == join(OutputFolder, category)
           gen == generate_unique_filename(fs, folder, original_name,
                                           used_names, category)
       IN  /\ used_names' = gen.used_names
           /\ trace' = Append(trace, [category |-> category,
                                      filename |-> original_name,
                                      name |-> gen.name, disk |-> fs])
    /\ UNCHANGED <<fs, call, opc, idx, success_count, error_count, errors,
                   ret, fs0, faults>>
    /\ UNCHANGED <<cacheVars, initVars, extVars>>

NamingInit == OrganizeInit

NamingNext ==
    \/ \E original_name \in NamingNames, category \in NamingCategories :
          GenerateUniqueFilename(original_name, category)
    \/ \E path \in {Dst_R_a, Dst_R_a_1} : FilePlaced(path)

SpecNaming == NamingInit /\ [][NamingNext]_vars

-----------------------------------------------------------------------------
(* Claims about the numbering scheme *)

\* name_k(.ext): the stem, an underscore, k, and the extension if there is one
Numbered(name, k) ==
    LET dots == {i \in DOMAIN name : name[i] = "."}
        dot == IF dots = {} THEN 0 ELSE CHOOSE i \in dots : \A j \in dots : j <= i
    IN  IF dot <= 1 THEN name \o <<"_">> \o to_string(k)
        ELSE SubSeq(name, 1, dot - 1) \o <<"_">> \o to_string(k)
                 \o SubSeq(name, dot, Len(name))

\* the earlier requests of the batch for the pair of request i
Earlier(i) ==
    {j \in 1..(i - 1) : /\ trace[j].category = trace[i].category
                        /\ trace[j].filename = trace[i].filename}

\* request i saw this name on the disk, in its category folder
OnDisk(i, name) ==
    <<OutputFolder[1], trace[i].category, name>> \in DOMAIN trace[i].disk

\* the number k of the name a first request returned: 0 for the name
\* unchanged
NumberOf(i) ==
    IF trace[i].name = trace[i].filename THEN 0
    ELSE CHOOSE k \in 1..(MaxFiles + 2) :
             trace[i].name = Numbered(trace[i].filename, k)

\* C24: the first request for a (category, filename) pair returns the name
\* unchanged when it is not on disk, and otherwise name_k(.ext) for the
\* smallest k >= 1 whose name is not on disk; the j-th subsequent request for
\* the same pair in the batch returns name_(k+j)(.ext), with k = 0 in the
\* unchanged case.
C24_NumberingScheme ==
    \A i \in DOMAIN trace :
        IF Earlier(i) = {}
        THEN IF ~OnDisk(i, trace[i].filename)
             THEN trace[i].name = trace[i].filename
             ELSE \E k \in 1..(MaxFiles + 2) :
                     /\ trace[i].name = Numbered(trace[i].filename, k)
                     /\ ~OnDisk(i, Numbered(trace[i].filename, k))
                     /\ \A n \in 1..(k - 1) :
                            OnDisk(i, Numbered(trace[i].filename, n))
        ELSE LET first == CHOOSE j \in Earlier(i) : \A n \in Earlier(i) : j <= n
             IN  trace[i].name =
                     Numbered(trace[i].filename,
                              NumberOf(first) + Cardinality(Earlier(i)))

\* C24 witness: ES_a.m and ES_a_1.m are in folder R: the first request for
\* (R, ES_a.m) returns ES_a_2.m and the two subsequent ones ES_a_3.m and
\* ES_a_4.m.
C24_Witness ==
    /\ Len(trace) = 3
    /\ \A i \in DOMAIN trace :
          trace[i].category = Str_R /\ trace[i].filename = Name_a
    /\ trace[1].name = <<"E", "S", "_", "a", "_", "2", ".", "m">>
    /\ trace[2].name = <<"E", "S", "_", "a", "_", "3", ".", "m">>
    /\ trace[3].name = <<"E", "S", "_", "a", "_", "4", ".", "m">>

-----------------------------------------------------------------------------
(* Claims about an unknown operation *)

\* the organize_files call was given an operation other than move and copy
UnknownOperation == call.some /\ call.val.operation \notin {"move", "copy"}

\* C25: when organize_files is called with an operation string other than
\* move or copy, each input file counts as exactly one error and the batch
\* continues to the next file: success_count is 0, error_count equals the
\* number of files, and no source or destination file is created, moved,
\* copied or removed.
C25_UnknownOperationCountsErrors ==
    UnknownOperation =>
        /\ fs = fs0
        /\ success_count = 0
        /\ error_count = Len(trace)
        /\ Len(errors) = Len(trace)
        /\ \A i \in DOMAIN trace :
               /\ trace[i].file = i
               /\ trace[i].outcome \in {"unknown operation", "create folder"}
        /\ (opc = "done" /\ ret.val.ok) =>
               /\ Len(trace) = Len(call.val.files)
               /\ ret.val.val.success_count = 0
               /\ ret.val.val.error_count = Len(call.val.files)
               /\ Len(ret.val.val.errors) = Len(call.val.files)

\* C25 witness: organize_files has returned for three files and the
\* operation link, with three errors that name the operation.
C25_Witness ==
    /\ UnknownOperation
    /\ opc = "done"
    /\ ret.val.ok
    /\ Len(call.val.files) = 3
    /\ ret.val.val.error_count = 3
    /\ \A i \in 1..3 : ret.val.val.errors[i] = unknown_operation("link")

-----------------------------------------------------------------------------
(* The commands of the application side by side: what removes cache rows *)

\* the records the frontend holds for the two cached files
FrameFiles == <<Tagged(PathA, None, None), Tagged(PathB, None, None)>>

\* a row a previous version of the application stored for s/b.WAV
StaleRow ==
    NewRow(read_audio_metadata_full(PathB).val, MaxMtime, MaxSize)

\* The application with a store its earlier version left behind: the tables
\* exist, the purge migration is not recorded yet, and a stale row may be
\* stored.  The frontend holds the records of the two files.
FrameInit ==
    /\ stat = [p \in CachePaths |-> Some([mtime |-> MaxMtime, size |-> MaxSize])]
    /\ tables = TRUE
    /\ rows \in {EmptyTable, Upsert(EmptyTable, PathB, StaleRow)}
    /\ ledger = {}
    /\ dbOpenable = TRUE
    /\ lastGet = None
    /\ putLog = [p \in CachePaths |-> None]
    /\ started = TRUE
    /\ InitIdle
    /\ fs = DiskOf(CachePaths)
    /\ call = None
    /\ opc = "idle"
    /\ idx = 0
    /\ used_names = EmptyTable
    /\ success_count = 0
    /\ error_count = 0
    /\ errors = <<>>
    /\ ret = None
    /\ fs0 = EmptyTable
    /\ faults = 0
    /\ trace = <<>>
    /\ fcall = Some(DuplicateRequest(FrameFiles, OutputFolder, "genre"))
    /\ handler = None
    /\ hpc = "idle"
    /\ results = <<>>
    /\ hret = None
    /\ hlog = <<>>
    /\ lastClear = None
    /\ cleared = {}

\* no command is running
Quiet == hpc \in {"idle", "done"} /\ opc \in {"idle", "done"}

\* main.rs:224-237: the commands the frontend can invoke, in any order, one
\* at a time (the interleavings of the cache operations are SpecConcurrent's)
FrameNext ==
    \/ /\ Quiet
       /\ \E op \in ScanCommands, paths \in {<<PathA>>, <<PathB, PathA>>} :
              HandlerStart(op, paths)
    \/ HandlerInit
    \/ HandlerClear
    \/ HandlerLookup
    \/ HandlerRead
    \/ HandlerPut
    \/ Quiet /\ ClearCache
    \/ /\ Quiet
       /\ \E operation \in {"move", "copy"} :
              OrganizeStart(FrameFiles, OutputFolder, "genre", operation, TRUE)
    \/ OrganizeFile(TRUE, TRUE, "ok", TRUE)
    \/ OrganizeReturn
    \/ Quiet /\ fcall.val.op # "delete_duplicates" /\ FindDuplicates
    \/ Quiet /\ fcall.val.op # "delete_duplicates" /\ FindSourceDuplicates
    \/ Quiet /\ fcall.val.op # "delete_duplicates" /\ PreviewOrganization
    \/ /\ Quiet
       /\ \E paths \in {<<PathA>>, <<PathB, PathA>>} :
              DeleteDuplicates(paths, [k \in DOMAIN paths |-> TRUE])

SpecFrame == FrameInit /\ [][FrameNext]_vars

\* the step is clear_cache_for_files of a rescan that was given the path
RescanClearStep(path) ==
    /\ HandlerClear
    /\ handler.val.op = "rescan_files"
    /\ \E i \in DOMAIN handler.val.paths : handler.val.paths[i] = path

\* the step is init_database running the purge migration, which is not
\* recorded yet
PurgeStep == HandlerInit /\ migration_name \notin ledger

\* the step is a step of scan_audio_files after its init_database
ScanStep ==
    /\ handler.some
    /\ handler.val.op = "scan_audio_files"
    /\ HandlerLookup \/ HandlerRead \/ HandlerPut

\* the step is a step of organize_files, find_duplicates,
\* find_source_duplicates, preview_organization or delete_duplicates
OrganizerStep ==
    \/ \E operation \in {"move", "copy"} :
           OrganizeStart(FrameFiles, OutputFolder, "genre", operation, TRUE)
    \/ OrganizeFile(TRUE, TRUE, "ok", TRUE)
    \/ OrganizeReturn
    \/ fcall'.val.op = "find_duplicates" /\ FindDuplicates
    \/ fcall'.val.op = "find_source_duplicates" /\ FindSourceDuplicates
    \/ fcall'.val.op = "preview_organization" /\ PreviewOrganization
    \/ /\ fcall'.val.op = "delete_duplicates"
       /\ \E paths \in {<<PathA>>, <<PathB, PathA>>} :
              DeleteDuplicates(paths, [k \in DOMAIN paths |-> TRUE])

\* the path has a row before the step and a different one or none after it
RowChanged(path) ==
    \/ path \in DOMAIN rows /\ path \notin DOMAIN rows'
    \/ path \in DOMAIN rows' /\ path \notin DOMAIN rows
    \/ path \in DOMAIN rows /\ path \in DOMAIN rows' /\ rows'[path] # rows[path]

\* C26: a cache entry is removed only by clear_cache, by
\* clear_cache_for_files (rescan) for the given paths, or by the purge
\* migration; scan_audio_files only inserts or replaces the entry of the
\* path it is scanning; organize_files, preview_organization,
\* find_duplicates, find_source_duplicates and delete_duplicates leave the
\* cache unchanged.
C26_RemovedOnlyByClearOrPurge ==
    [][/\ \A path \in CachePaths :
              (path \in DOMAIN rows /\ path \notin DOMAIN rows') =>
                  \/ ClearCache
                  \/ RescanClearStep(path)
                  \/ PurgeStep
       /\ ScanStep =>
              \A path \in CachePaths :
                  RowChanged(path) =>
                      /\ path = handler.val.paths[handler.val.i]
                      /\ path \in DOMAIN rows'
       /\ OrganizerStep => rows' = rows]_vars

\* C26 witness: organize_files has moved s/a.mp3 away and delete_duplicates
\* has removed s/b.WAV, and the rows of both files are still stored.
C26_Witness ==
    /\ opc = "done"
    /\ call.val.operation = "move"
    /\ fcall.val.op = "delete_duplicates"
    /\ DOMAIN fs \cap CachePaths = {}
    /\ DOMAIN rows = CachePaths

-----------------------------------------------------------------------------
(* Concurrent organize_files calls: each call has its own used_names map   *)
(* (organize.rs:50) and shares only the disk with the others.  Here the    *)
(* variables of a call are functions of the call's number.                 *)

MaxCalls == 2
Calls == 1..MaxCalls

RaceFiles ==
    { Tagged(Src_s_a, None, None), Tagged(Src_t_a, None, None),
      Tagged(Src_s_a_1, None, None) }

RaceLists == UNION {[1..n -> RaceFiles] : n \in 1..MaxPaths}

RaceInit ==
    /\ CacheReady
    /\ ExtIdle
    /\ fs = DiskOf({Src_s_a, Src_t_a, Src_s_a_1})
    /\ call = [c \in Calls |-> None]
    /\ opc = [c \in Calls |-> "idle"]
    /\ idx = [c \in Calls |-> 0]
    /\ used_names = [c \in Calls |-> EmptyTable]
    /\ success_count = [c \in Calls |-> 0]
    /\ error_count = [c \in Calls |-> 0]
    /\ errors = [c \in Calls |-> <<>>]
    /\ ret = [c \in Calls |-> None]
    /\ fs0 = EmptyTable
    /\ faults = 0
    /\ trace = <<>>

\* organize.rs:32-51: a call starts; the destination root is created
RaceStart(c, files, operation) ==
    /\ opc[c] = "idle"
    /\ call' = [call EXCEPT ![c] =
                   Some([files |-> files, output_folder |-> OutputFolder,
                         organize_by |-> "genre", operation |-> operation,
                         dest_path |-> None])]
    /\ opc' = [opc EXCEPT ![c] = "resolve"]
    /\ idx' = [idx EXCEPT ![c] = 1]
    /\ UNCHANGED <<fs, used_names, success_count, error_count, errors, ret,
                   fs0, faults, trace, cacheVars, initVars, extVars>>

\* organize.rs:53-76: the category folder is created and the destination
\* path of the current file is resolved against the disk as it is now
RaceResolve(c) ==
    /\ opc[c] = "resolve"
    /\ idx[c] <= Len(call[c].val.files)
    /\ LET file == call[c].val.files[idx[c]]
           category == get_file_category(file, call[c].val.organize_by)
           safe_category == sanitize_folder_name(category)
           category_path == join(call[c].val.output_folder, safe_category)
           gen == generate_unique_filename(fs, category_path, file.filename,
                                           used_names[c], safe_category)
           dest_path == join(category_path, gen.name)
       IN  /\ used_names' = [used_names EXCEPT ![c] = gen.used_names]
           /\ call' = [call EXCEPT ![c].val.dest_path = Some(dest_path)]
           /\ trace' = Append(trace, [call |-> c, file |-> idx[c],
                                      step |-> "resolve", dest |-> dest_path,
                                      ok |-> TRUE, src_existed |-> TRUE,
                                      written |-> None, replaced |-> None])
    /\ opc' = [opc EXCEPT ![c] = "write"]
    /\ UNCHANGED <<fs, idx, success_count, error_count, errors, ret, fs0,
                   faults, cacheVars, initVars, extVars>>

\* organize.rs:78-100: the operation is performed on the resolved path
RaceWrite(c) ==
    /\ opc[c] = "write"
    /\ LET file == call[c].val.files[idx[c]]
           operation == call[c].val.operation
           dest_path == call[c].val.dest_path.val
           result == IF operation = "move"
                     THEN move_file(fs, file.path, dest_path, TRUE, "ok", TRUE)
                     ELSE copy_file(fs, file.path, dest_path, "ok")
       IN  /\ fs' = result.disk
           /\ IF result.ok
              THEN /\ success_count' =
                          [success_count EXCEPT ![c] = success_count[c] + 1]
                   /\ UNCHANGED <<error_count, errors>>
              ELSE /\ errors' = [errors EXCEPT ![c] =
                          push(errors[c], fs_error(file.filename, operation))]
                   /\ error_count' =
                          [error_count EXCEPT ![c] = error_count[c] + 1]
                   /\ UNCHANGED success_count
           /\ trace' = Append(trace,
                  [call |-> c, file |-> idx[c], step |-> "write",
                   dest |-> dest_path, ok |-> result.ok,
                   src_existed |-> exists(fs, file.path),
                   written |-> IF exists(result.disk, dest_path)
                               THEN Some(result.disk[dest_path]) ELSE None,
                   replaced |-> IF exists(fs, dest_path)
                                THEN Some(fs[dest_path]) ELSE None])
    /\ call' = [call EXCEPT ![c].val.dest_path = None]
    /\ idx' = [idx EXCEPT ![c] = idx[c] + 1]
    /\ opc' = [opc EXCEPT ![c] = "resolve"]
    /\ UNCHANGED <<used_names, ret, fs0, faults, cacheVars, initVars, extVars>>

\* organize.rs:103-108
RaceReturn(c) ==
    /\ opc[c] = "resolve"
    /\ idx[c] > Len(call[c].val.files)
    /\ ret' = [ret EXCEPT ![c] =
                  Some(Ok(OrganizeResult(success_count[c], error_count[c],
                                         skipped_count, errors[c])))]
    /\ opc' = [opc EXCEPT ![c] = "done"]
    /\ UNCHANGED <<fs, call, idx, used_names, success_count, error_count,
                   errors, fs0, faults, trace, cacheVars, initVars, extVars>>

RaceNext ==
    \/ \E c \in Calls, files \in RaceLists, operation \in {"move", "copy"} :
           RaceStart(c, files, operation)
    \/ \E c \in Calls : RaceResolve(c)
    \/ \E c \in Calls : RaceWrite(c)
    \/ \E c \in Calls : RaceReturn(c)

SpecRace == RaceInit /\ [][RaceNext]_vars

\* the positions of the trace where a call wrote
WriteSteps == {i \in DOMAIN trace : trace[i].step = "write"}

\* the position where the call resolved the path it wrote at position i
ResolveOf(i) ==
    CHOOSE r \in DOMAIN trace :
        /\ r < i
        /\ trace[r].step = "resolve"
        /\ trace[r].call = trace[i].call
        /\ trace[r].file = trace[i].file

\* the writes at i and j are by two calls that resolved the same path, each
\* before the other wrote
Raced(i, j) ==
    /\ i < j
    /\ trace[i].call # trace[j].call
    /\ trace[i].dest = trace[j].dest
    /\ ResolveOf(j) < i

\* C27: two concurrent organize_files calls with the same destination folder
\* can resolve the same destination path, each probing the disk before the
\* other writes and each holding its own used_names map; then neither write
\* is refused: a write fails only when its source is gone, and the later
\* write lands on the file the earlier call wrote.
C27_ConcurrentCallsShareDestination ==
    /\ \A i \in WriteSteps : trace[i].ok = trace[i].src_existed
    /\ \A i \in WriteSteps, j \in WriteSteps :
           (Raced(i, j) /\ trace[i].ok /\ trace[j].ok) =>
               /\ trace[j].replaced.some
               /\ trace[j].written.some
               /\ (\A k \in WriteSteps :
                       (i < k /\ k < j) => trace[k].dest # trace[i].dest)
                  => trace[j].replaced = trace[i].written

\* C27 witness: both calls have resolved o/R/ES_a.m, one for s/ES_a.m and
\* one for t/ES_a.m, before either wrote; both have moved their file there
\* and returned one success and no error; the file of s is on the disk no
\* more.
C27_Witness ==
    /\ \A c \in Calls : opc[c] = "done" /\ call[c].val.operation = "move"
    /\ \A c \in Calls : ret[c].val.val.success_count = 1
    /\ \A c \in Calls : ret[c].val.val.error_count = 0
    /\ \E i \in WriteSteps, j \in WriteSteps :
           /\ Raced(i, j)
           /\ trace[i].dest = Dst_R_a
           /\ trace[i].written = Some(Src_s_a)
           /\ trace[j].written = Some(Src_t_a)
    /\ \A p \in DOMAIN fs : fs[p] # Src_s_a

-----------------------------------------------------------------------------
(* Claims about the coherency of the cache with the files *)

\* C28: a record returned by get_cached_metadata, and hence by a cache hit
\* of scan_audio_files, equals what the reader returns for the file in its
\* current state (every change of a file's content changes its mtime), also
\* when the file is modified between the reader's read and cache_metadata's
\* own stat of the file during an earlier scan.
C28_CachedRecordIsCurrent ==
    \A path \in CachePaths :
        LET cached == get_cached_metadata(path)
            current == read_audio_metadata_full(path)
        IN  (cached.ok /\ cached.val.some) =>
                current.ok /\ cached.val.val = current.val

-----------------------------------------------------------------------------
(* Claims about the destination subfolder *)

\* C29: the sanitized category used as destination subfolder is never the
\* empty string, for every AudioMetadata and mode (an empty, whitespace-only
\* or comma-leading mood, genre or category_override included), so that
\* every file is placed in a proper subfolder of the destination.
C29_SubfolderNeverEmpty ==
    CategoryCalled => sanitize_folder_name(fcall.val.result) # <<>>

-----------------------------------------------------------------------------
(* Claims about placeholder records *)

\* the reader was invoked for the log entry and failed
ReadFailed(e) == e.read.some /\ ~e.read.val.ok

\* the log entries i and j are of the same path, the reader failed at i, and
\* no read of the path succeeded from i up to j
StillFailing(i, j) ==
    /\ i < j
    /\ hlog[i].path = hlog[j].path
    /\ ReadFailed(hlog[i])
    /\ \A k \in i..(j - 1) : hlog[k].path = hlog[i].path => ~ReadOk(hlog[k])

\* no stored row is a placeholder, and a failed read is followed by no
\* cache_metadata call
NoPlaceholderCached ==
    /\ \A path \in DOMAIN rows :
           RowToMetadata(rows[path]) # Placeholder(path)
    /\ \A i \in DOMAIN hlog : ReadFailed(hlog[i]) => ~hlog[i].put.some

====
